---------------------------- MODULE Spec2Model ----------------------------
(***************************************************************************)
(* The transcode bridge of OpenPlayer-Server: the generators returned by   *)
(* SpotifyStreamer.generate_stream (src/streamers/spotify.py) and          *)
(* YouTubeStreamer.generate_stream (src/streamers/youtube.py).             *)
(*                                                                         *)
(* One run of the model is one call of the generator `stream()`: the       *)
(* consumer (the WSGI server iterating the Response body) starts it,       *)
(* pulls chunks with next() and may close() it at any yield.  The external *)
(* ffmpeg process, the OS pipes to and from it and, for Spotify, the       *)
(* feeder thread `async_write` run concurrently with it.                   *)
(*                                                                         *)
(* Bytes are counted in abstract units.  A read of the transcoder's output *)
(* asks for ChunkSize units and, like io.BufferedReader.read(n), returns   *)
(* exactly that many unless the pipe is at end-of-file.                    *)
(*                                                                         *)
(* ffmpeg_process.stdin is an io.BufferedWriter over the pipe: a write of  *)
(* a chunk that fits its buffer is only copied into the buffer, any other  *)
(* write goes through to the pipe (after the buffer), write and close take *)
(* the writer's lock and keep it while the pipe write blocks, close()      *)
(* flushes the buffer first, and a flush to a pipe whose reader is gone    *)
(* raises BrokenPipeError (the file is closed all the same).               *)
(*                                                                         *)
(* The second part follows one stream request from the route handlers of   *)
(* src/server.py through request_stream of the two streamers to the        *)
(* response and the first next() of its body.                              *)
(***************************************************************************)
EXTENDS Integers, Sequences, FiniteSets, TLC

\* Bounds of the model.
MaxSize == 3    \* largest declared size
MaxOut == 5     \* most bytes the transcoder produces in a run
MaxSrc == 2     \* most chunks the upstream stream holds
ChunkSize == 2  \* self.chunk_size, in units
InCap == 1      \* capacity of the pipe to ffmpeg's stdin, in chunks
OutSlack == 0   \* room in the pipe from ffmpeg's stdout beyond one chunk
BufCap == 1     \* short chunks the BufferedWriter's buffer holds
MaxDuration == 2 \* longest track, in seconds

VARIABLES
    bridge,         \* "spotify" | "youtube": which generate_stream is running
    size,           \* the declared size passed to generate_stream
    stream_pc,      \* position of the generator stream()
    transmitted,    \* the local variable `transmitted`
    yielded,        \* the chunks the consumer has received, in order
    cancelled,      \* the consumer called close() on the generator
    raised,         \* the generator ended by raising to the consumer
    ffmpeg_process, \* "none" | "running" | "exited" (dead, unreaped) | "reaped"
    terminated,     \* ffmpeg_process.terminate() has been called
    waited,         \* ffmpeg_process.wait() has returned
    stdin_closed,   \* ffmpeg_process.stdin is closed
    stdout_closed,  \* ffmpeg_process.stdout is closed
    stdin_buf,      \* chunks held in the BufferedWriter's buffer
    stdin_pipe,     \* chunks in the OS pipe to ffmpeg's stdin
    stdin_lock,     \* "free" | "feeder" | "main": holder of the writer's lock
    stdout_pipe,    \* bytes in the OS pipe from ffmpeg's stdout
    produced,       \* bytes ffmpeg has produced so far
    tc_pending,     \* bytes ffmpeg is in the middle of writing to stdout
    write_t,        \* position of the feeder thread async_write
    in_chunk,       \* the feeder's local `in_chunk`
    src_len,        \* chunks the upstream stream holds
    n_read,         \* chunks the feeder has read from upstream
    input_closed,   \* stream.close() was called on the upstream stream
    write_log,      \* history: chunks for which the feeder's stdin.write returned
    fed_at_close,   \* history: Len(write_log) when the feeder closed stdin, or -1
    feeder_err,     \* history: the feeder entered its except branch
    feeder_eof,     \* history: the feeder read end-of-input from upstream
    drain_err,      \* history: stdout.read raised in the generator
    eof_at,         \* history: Len(yielded) when stdout.read returned b'', or -1
    route,          \* the entry point of the request, "none" when the generator
                    \* is driven on its own
    method,         \* request.method
    id,             \* the id / trackId / videoId parameter, a sequence of
                    \* characters (<<>>: absent or empty)
    download,       \* the download parameter: "absent" or its text
    range_hdr,      \* the request's Range header (NoRange: absent)
    track_exists,   \* upstream: the provider can resolve the track
    track_ms,       \* upstream: the track's length in milliseconds
    track_file,     \* upstream: the audio file's format (Spotify) or abr (YouTube)
    valid_sessions, \* upstream: the sessions the provider accepts
    session,        \* self.session of SpotifyStreamer: the session's number
    content_feeder, \* self.content_feeder: the number of the session it is of
    req_pc,         \* position of the request in the handler / request_stream
    exc,            \* the exception in flight or last raised, "none" if none
    duration,       \* the local `duration` of request_stream and the handler
    status,         \* status of the response, 0 before there is one
    headers,        \* the response's headers set by the handler
    body,           \* "none" | "text" | "error_page" | "generator" | "empty"
    unhandled,      \* an exception left the route handler
    n_load,         \* history: loads of the track from its provider in this
                    \* request (content_feeder.load, YouTube(...))
    n_init,         \* history: calls of init_session in this request
    first_fail,     \* history: what the first load raised, "none" if it did not
    credentials,    \* the Basic credentials of the request
    host,           \* the host of the request (netloc of request.url_root)
    q,              \* the q parameter, a sequence of characters (<<>>: absent
                    \* or empty)
    limit,          \* the limit parameter: [present, text]
    spotify_catalog, \* upstream: the tracks Spotify finds for q, in its order
    youtube_catalog, \* upstream: the videos YouTube finds for q, in its order
    calls,          \* history: the provider searches made, with their limits
    returned,       \* history: the hits each provider returned
    spotify_results, \* the handler's local `spotify_results` (or `results`)
    youtube_results, \* the handler's local `youtube_results` (or `results`)
    results,        \* the list passed to jsonify
    fn_name,        \* the function called on its own, "none" if none
    fn_arg,         \* its argument(s)
    fn_res,         \* what its calls returned, in order
    thread_pc,      \* concurrent request_stream calls: where each thread is
    thread_tmp      \* ... and the object a thread holds between two bytecodes

vars == <<bridge, size, stream_pc, transmitted, yielded, cancelled, raised,
          ffmpeg_process, terminated, waited, stdin_closed, stdout_closed,
          stdin_buf, stdin_pipe, stdin_lock, stdout_pipe, produced, tc_pending,
          write_t, in_chunk, src_len, n_read, input_closed, write_log,
          fed_at_close, feeder_err, feeder_eof, drain_err, eof_at,
          route, method, id, download, range_hdr, track_exists, track_ms,
          track_file, valid_sessions, session, content_feeder, req_pc, exc,
          duration, status, headers, body, unhandled, n_load, n_init,
          first_fail, credentials, host, q, limit, spotify_catalog,
          youtube_catalog, calls, returned, spotify_results, youtube_results,
          results, fn_name, fn_arg, fn_res, thread_pc, thread_tmp>>

mainVars == <<stream_pc, transmitted, yielded, cancelled, raised, drain_err, eof_at>>
procVars == <<ffmpeg_process, terminated, waited>>
stdinVars == <<stdin_closed, stdin_buf, stdin_pipe, stdin_lock>>
stdoutVars == <<stdout_closed, stdout_pipe>>
tcVars == <<produced, tc_pending>>
feederVars == <<write_t, in_chunk, n_read, input_closed, write_log,
                fed_at_close, feeder_err, feeder_eof>>
requestVars == <<route, method, id, download, range_hdr>>
trackVars == <<track_exists, track_ms, track_file>>
upstreamVars == <<trackVars, valid_sessions>>
sessionVars == <<session, content_feeder>>
responseVars == <<status, headers, body, unhandled>>
historyVars == <<n_load, n_init, first_fail>>
searchVars == <<credentials, host, q, limit, spotify_catalog, youtube_catalog,
                calls, returned, spotify_results, youtube_results, results>>
fnVars == <<fn_name, fn_arg, fn_res>>
threadVars == <<thread_pc, thread_tmp>>
httpVars == <<requestVars, upstreamVars, sessionVars, responseVars, historyVars,
              req_pc, exc, duration, searchVars, fnVars, threadVars>>
\* What is fixed before the generator runs: its parameters and the request.
paramVars == <<bridge, size, src_len, httpVars>>

NoChunk == [id |-> 0, short |-> FALSE]

RECURSIVE SumLen(_)
SumLen(s) == IF s = <<>> THEN 0 ELSE Head(s).len + SumLen(Tail(s))

\* Bytes the consumer has received so far.
Total == SumLen(yielded)

NoRange == [start |-> -1, end |-> -1]
NoHeaders == [h \in {} |-> ""]

\* The secrets of the environment (USERNAME, PASSWORD).
Secrets == [username |-> "user", password |-> "secret"]

NoLimit == [present |-> FALSE, text |-> <<>>]

\* The request is no search.
NoSearchRequest ==
    /\ host = "host"
    /\ q = <<>>
    /\ limit = NoLimit
    /\ spotify_catalog = <<>>
    /\ youtube_catalog = <<>>
    /\ calls = <<>>
    /\ returned = <<>>
    /\ spotify_results = <<>>
    /\ youtube_results = <<>>
    /\ results = <<>>

\* No search is made; the request, if there is one, has passed the login.
NoSearch ==
    /\ credentials = Secrets
    /\ NoSearchRequest

\* The threads that call request_stream at the same time.
MaxThreads == 2
Threads == 1..MaxThreads

\* No thread calls request_stream beside the request.
NoThreads ==
    /\ thread_pc = [t \in Threads |-> "none"]
    /\ thread_tmp = [t \in Threads |-> 0]

\* No function is called on its own.
NoCall ==
    /\ fn_name = "none"
    /\ fn_arg = <<>>
    /\ fn_res = <<>>

\* The generator is driven on its own: there is no request.
NoStreamRequest ==
    /\ method = "GET"
    /\ id = <<>>
    /\ download = "absent"
    /\ range_hdr = NoRange
    /\ track_exists = TRUE
    /\ track_ms = 0
    /\ track_file = "none"
    /\ valid_sessions = {0}

\* No request is being served.
NoHttp ==
    /\ NoSearch
    /\ NoThreads
    /\ route = "none"
    /\ NoStreamRequest
    /\ session = 0
    /\ content_feeder = 0
    /\ req_pc = "none"
    /\ exc = "none"
    /\ duration = 0
    /\ status = 0
    /\ headers = NoHeaders
    /\ body = "none"
    /\ unhandled = FALSE
    /\ n_load = 0
    /\ n_init = 0
    /\ first_fail = "none"

NoRequest ==
    /\ NoHttp
    /\ NoCall

\* Nothing of the generator has run: no process, no thread, no chunk.
NotStarted ==
    /\ transmitted = 0
    /\ yielded = <<>>
    /\ cancelled = FALSE
    /\ raised = FALSE
    /\ ffmpeg_process = "none"
    /\ terminated = FALSE
    /\ waited = FALSE
    /\ stdin_closed = FALSE
    /\ stdout_closed = FALSE
    /\ stdin_buf = <<>>
    /\ stdin_pipe = <<>>
    /\ stdin_lock = "free"
    /\ stdout_pipe = 0
    /\ produced = 0
    /\ tc_pending = 0
    /\ write_t = "none"
    /\ in_chunk = NoChunk
    /\ n_read = 0
    /\ input_closed = FALSE
    /\ write_log = <<>>
    /\ fed_at_close = -1
    /\ feeder_err = FALSE
    /\ feeder_eof = FALSE
    /\ drain_err = FALSE
    /\ eof_at = -1

Init ==
    /\ NoRequest
    /\ bridge \in {"spotify", "youtube"}
    /\ size \in 1..MaxSize
    /\ src_len \in IF bridge = "spotify" THEN 0..MaxSrc ELSE {0}
    /\ stream_pc = "init"
    /\ NotStarted



(***************************************************************************)
(* ffmpeg_process.stdin: the buffered writer and the pipe under it.        *)
(***************************************************************************)

\* ffmpeg no longer holds the read end of its stdin pipe.
ReaderGone == ffmpeg_process \in {"exited", "reaped"}

InRoom == Len(stdin_pipe) < InCap

\* Bytes ffmpeg can have written to its stdout and the server not yet taken:
\* stdout.read(n) gathers from the pipe until it holds n bytes, so a pending
\* read always leaves room for a whole chunk.
OutCap == ChunkSize + OutSlack

\* ffmpeg_process.stdin.close() called by thread T ("feeder" or "main").
\* OnOk: the call returned; OnRaise: it raised; OnStay: it is still inside
\* the call, holding the writer's lock.
stdin_close(T, OnOk, OnRaise, OnStay) ==
    /\ stdin_lock \in {"free", T}
    /\ \/ /\ stdin_closed
          /\ UNCHANGED stdinVars
          /\ OnOk
       \/ /\ ~stdin_closed
          /\ stdin_buf = <<>>
          /\ stdin_closed' = TRUE
          /\ stdin_lock' = "free"
          /\ UNCHANGED <<stdin_buf, stdin_pipe>>
          /\ OnOk
       \/ /\ ~stdin_closed
          /\ stdin_buf # <<>>
          /\ ReaderGone
          /\ stdin_closed' = TRUE
          /\ stdin_lock' = "free"
          /\ stdin_buf' = <<>>
          /\ UNCHANGED stdin_pipe
          /\ OnRaise
       \/ /\ ~stdin_closed
          /\ stdin_buf # <<>>
          /\ ~ReaderGone
          /\ InRoom
          /\ stdin_pipe' = Append(stdin_pipe, Head(stdin_buf))
          /\ stdin_buf' = Tail(stdin_buf)
          /\ stdin_lock' = T
          /\ UNCHANGED stdin_closed
          /\ OnStay
       \/ /\ ~stdin_closed
          /\ stdin_buf # <<>>
          /\ ~ReaderGone
          /\ ~InRoom
          /\ stdin_lock = "free"
          /\ stdin_lock' = T
          /\ UNCHANGED <<stdin_closed, stdin_buf, stdin_pipe>>
          /\ OnStay

(***************************************************************************)
(* The feeder thread: async_write(ffmpeg_process, stream).                 *)
(***************************************************************************)

\* The feeder's first close of stdin, for the history.
note_close == fed_at_close' = IF fed_at_close = -1 THEN Len(write_log) ELSE fed_at_close

\* A feeder that takes a short read for the end of the input.
async_write_read_short_is_eof ==
    /\ write_t = "read"
    /\ n_read < src_len
    /\ n_read' = n_read + 1
    /\ \E short \in BOOLEAN :
          IF short
          THEN /\ in_chunk' = NoChunk
               /\ feeder_eof' = TRUE
               /\ write_t' = "close"
          ELSE /\ in_chunk' = [id |-> n_read + 1, short |-> FALSE]
               /\ write_t' = "write"
               /\ UNCHANGED feeder_eof
    /\ UNCHANGED <<input_closed, write_log, fed_at_close, feeder_err>>
    /\ UNCHANGED <<paramVars, mainVars, procVars, stdinVars, stdoutVars, tcVars>>

\* in_chunk = stream.read(self.chunk_size) returns a chunk.
async_write_read ==
    /\ write_t = "read"
    /\ n_read < src_len
    /\ \E short \in BOOLEAN :
          in_chunk' = [id |-> n_read + 1, short |-> short]
    /\ n_read' = n_read + 1
    /\ write_t' = "write"
    /\ UNCHANGED <<input_closed, write_log, fed_at_close, feeder_err, feeder_eof>>
    /\ UNCHANGED <<paramVars, mainVars, procVars, stdinVars, stdoutVars, tcVars>>

\* stream.read returns b'': `if not in_chunk:`.
async_write_eof ==
    /\ write_t = "read"
    /\ n_read = src_len
    /\ in_chunk' = NoChunk
    /\ feeder_eof' = TRUE
    /\ write_t' = "close"
    /\ UNCHANGED <<n_read, input_closed, write_log, fed_at_close, feeder_err>>
    /\ UNCHANGED <<paramVars, mainVars, procVars, stdinVars, stdoutVars, tcVars>>

\* stream.read raises (either of the two calls): control goes to `except:`.
async_write_read_error ==
    /\ write_t \in {"read", "extra_read"}
    /\ write_t' = "except"
    /\ feeder_err' = TRUE
    /\ UNCHANGED <<in_chunk, n_read, input_closed, write_log, fed_at_close, feeder_eof>>
    /\ UNCHANGED <<paramVars, mainVars, procVars, stdinVars, stdoutVars, tcVars>>

\* ffmpeg_process.stdin.write(in_chunk): the call is entered.
async_write_write ==
    /\ write_t = "write"
    /\ stdin_lock = "free"
    /\ \/ /\ stdin_closed                       \* ValueError: write to closed file
          /\ write_t' = "except"
          /\ feeder_err' = TRUE
          /\ UNCHANGED <<stdinVars, write_log>>
       \/ /\ ~stdin_closed                      \* fits the buffer: copied, no I/O
          /\ in_chunk.short
          /\ Len(stdin_buf) < BufCap
          /\ stdin_buf' = Append(stdin_buf, in_chunk.id)
          /\ write_log' = Append(write_log, in_chunk.id)
          /\ write_t' = "read"
          /\ UNCHANGED <<stdin_closed, stdin_pipe, stdin_lock, feeder_err>>
       \/ /\ ~stdin_closed                      \* goes through to the pipe
          /\ ~(in_chunk.short /\ Len(stdin_buf) < BufCap)
          /\ stdin_lock' = "feeder"
          /\ write_t' = "writing"
          /\ UNCHANGED <<stdin_closed, stdin_buf, stdin_pipe, feeder_err, write_log>>
    /\ UNCHANGED <<in_chunk, n_read, input_closed, fed_at_close, feeder_eof>>
    /\ UNCHANGED <<paramVars, mainVars, procVars, stdoutVars, tcVars>>

\* Inside stdin.write, holding the lock: the buffer is written out first,
\* then the chunk (a short chunk is left in the emptied buffer).
async_write_writing ==
    /\ write_t = "writing"
    /\ \/ /\ ReaderGone                         \* BrokenPipeError
          /\ stdin_lock' = "free"
          /\ write_t' = "except"
          /\ feeder_err' = TRUE
          /\ UNCHANGED <<stdin_closed, stdin_buf, stdin_pipe, write_log>>
       \/ /\ ~ReaderGone
          /\ stdin_buf # <<>>
          /\ InRoom
          /\ stdin_pipe' = Append(stdin_pipe, Head(stdin_buf))
          /\ stdin_buf' = Tail(stdin_buf)
          /\ UNCHANGED <<stdin_closed, stdin_lock, write_t, feeder_err, write_log>>
       \/ /\ ~ReaderGone
          /\ stdin_buf = <<>>
          /\ in_chunk.short
          /\ stdin_buf' = <<in_chunk.id>>
          /\ write_log' = Append(write_log, in_chunk.id)
          /\ stdin_lock' = "free"
          /\ write_t' = "read"
          /\ UNCHANGED <<stdin_closed, stdin_pipe, feeder_err>>
       \/ /\ ~ReaderGone
          /\ stdin_buf = <<>>
          /\ ~in_chunk.short
          /\ InRoom
          /\ stdin_pipe' = Append(stdin_pipe, in_chunk.id)
          /\ write_log' = Append(write_log, in_chunk.id)
          /\ stdin_lock' = "free"
          /\ write_t' = "read"
          /\ UNCHANGED <<stdin_closed, stdin_buf, feeder_err>>
    /\ UNCHANGED <<in_chunk, n_read, input_closed, fed_at_close, feeder_eof>>
    /\ UNCHANGED <<paramVars, mainVars, procVars, stdoutVars, tcVars>>

\* A feeder that does not close ffmpeg's stdin at the end of the input.
async_write_close_skipped ==
    /\ write_t = "close"
    /\ write_t' = "extra_read"
    /\ UNCHANGED <<in_chunk, n_read, input_closed, write_log, fed_at_close,
                   feeder_err, feeder_eof>>
    /\ UNCHANGED <<paramVars, mainVars, procVars, stdinVars, stdoutVars, tcVars>>

\* End of input: ffmpeg_process.stdin.close().
async_write_close ==
    /\ write_t = "close"
    /\ stdin_close("feeder",
                   write_t' = "extra_read" /\ note_close /\ UNCHANGED feeder_err,
                   write_t' = "except" /\ note_close /\ feeder_err' = TRUE,
                   UNCHANGED <<write_t, fed_at_close, feeder_err>>)
    /\ UNCHANGED <<in_chunk, n_read, input_closed, write_log, feeder_eof>>
    /\ UNCHANGED <<paramVars, mainVars, procVars, stdoutVars, tcVars>>

\* The second stream.read(self.chunk_size), then `break`.
async_write_extra_read ==
    /\ write_t = "extra_read"
    /\ write_t' = "done"
    /\ UNCHANGED <<in_chunk, n_read, input_closed, write_log, fed_at_close,
                   feeder_err, feeder_eof>>
    /\ UNCHANGED <<paramVars, mainVars, procVars, stdinVars, stdoutVars, tcVars>>

\* except: ffmpeg_process.stdin.close().  If this close raises, the
\* exception leaves the thread and stream.close() is not reached.
async_write_except_close ==
    /\ write_t = "except"
    /\ stdin_close("feeder",
                   write_t' = "except_close_stream" /\ note_close,
                   write_t' = "died" /\ note_close,
                   UNCHANGED <<write_t, fed_at_close>>)
    /\ UNCHANGED <<in_chunk, n_read, input_closed, write_log, feeder_err, feeder_eof>>
    /\ UNCHANGED <<paramVars, mainVars, procVars, stdoutVars, tcVars>>

\* except: stream.close().
async_write_except_close_stream ==
    /\ write_t = "except_close_stream"
    /\ input_closed' = TRUE
    /\ write_t' = "done"
    /\ UNCHANGED <<in_chunk, n_read, write_log, fed_at_close, feeder_err, feeder_eof>>
    /\ UNCHANGED <<paramVars, mainVars, procVars, stdinVars, stdoutVars, tcVars>>

async_write ==
    \/ async_write_read
    \/ async_write_eof
    \/ async_write_read_error
    \/ async_write_write
    \/ async_write_writing
    \/ async_write_close
    \/ async_write_extra_read
    \/ async_write_except_close
    \/ async_write_except_close_stream

(***************************************************************************)
(* The external transcoder: an opaque filter.  It reads its stdin (Spotify *)
(* only; for YouTube it fetches payload.url itself), writes its stdout and *)
(* blocks on a full stdout pipe before it reads any further input.         *)
(***************************************************************************)

\* ffmpeg takes the next chunk from its stdin.
ffmpeg_read ==
    /\ bridge = "spotify"
    /\ ffmpeg_process = "running"
    /\ tc_pending = 0
    /\ stdin_pipe # <<>>
    /\ stdin_pipe' = Tail(stdin_pipe)
    /\ UNCHANGED <<stdin_closed, stdin_buf, stdin_lock>>
    /\ UNCHANGED <<paramVars, mainVars, procVars, stdoutVars, tcVars, feederVars>>

\* ffmpeg has a byte of output to write.
ffmpeg_produce ==
    /\ ffmpeg_process = "running"
    /\ tc_pending = 0
    /\ produced < MaxOut
    /\ tc_pending' = 1
    /\ produced' = produced + 1
    /\ UNCHANGED <<paramVars, mainVars, procVars, stdinVars, stdoutVars, feederVars>>

\* ffmpeg writes to its stdout: blocked while the pipe is full, killed by
\* SIGPIPE once the server has closed the read end.
ffmpeg_write ==
    /\ ffmpeg_process = "running"
    /\ tc_pending > 0
    /\ \/ /\ stdout_closed
          /\ ffmpeg_process' = "exited"
          /\ tc_pending' = 0
          /\ stdin_pipe' = <<>>
          /\ UNCHANGED stdout_pipe
       \/ /\ ~stdout_closed
          /\ stdout_pipe < OutCap
          /\ stdout_pipe' = stdout_pipe + tc_pending
          /\ tc_pending' = 0
          /\ UNCHANGED <<ffmpeg_process, stdin_pipe>>
    /\ UNCHANGED <<stdin_closed, stdin_buf, stdin_lock, stdout_closed, produced,
                   terminated, waited>>
    /\ UNCHANGED <<paramVars, mainVars, feederVars>>

\* ffmpeg finishes: its input is at end-of-file and its output is written.
ffmpeg_exit ==
    /\ ffmpeg_process = "running"
    /\ tc_pending = 0
    /\ bridge = "spotify" => (stdin_closed /\ stdin_pipe = <<>>)
    /\ ffmpeg_process' = "exited"
    /\ UNCHANGED <<terminated, waited>>
    /\ UNCHANGED <<paramVars, mainVars, stdinVars, stdoutVars, tcVars, feederVars>>

\* ffmpeg exits early (bad input, a crash), whatever it was doing.
ffmpeg_abort ==
    /\ ffmpeg_process = "running"
    /\ ffmpeg_process' = "exited"
    /\ tc_pending' = 0
    /\ stdin_pipe' = <<>>
    /\ UNCHANGED <<stdin_closed, stdin_buf, stdin_lock, produced, terminated, waited>>
    /\ UNCHANGED <<paramVars, mainVars, stdoutVars, feederVars>>

ffmpeg ==
    \/ ffmpeg_read
    \/ ffmpeg_produce
    \/ ffmpeg_write
    \/ ffmpeg_exit
    \/ ffmpeg_abort

(***************************************************************************)
(* What both generators share.                                             *)
(***************************************************************************)

\* `if transmitted < size:`
needs_pad(sz, tr) == tr < sz

\* A pad as long as the whole declared size.
pad_chunk_whole(sz, tr) == [len |-> sz, pad |-> TRUE, off |-> tr]

\* b'\0' * (size-transmitted)
pad_chunk(sz, tr) == [len |-> sz - tr, pad |-> TRUE, off |-> tr]

\* A chunk of n bytes read from ffmpeg's stdout at offset tr of its output.
out_chunk(n, tr) == [len |-> n, pad |-> FALSE, off |-> tr]

\* What ffmpeg_process.stdout.read(self.chunk_size) returns now: a full
\* chunk, the rest of the output once ffmpeg is gone, 0 for b'' at
\* end-of-file, -1 while the read blocks.
stdout_read ==
    IF stdout_pipe >= ChunkSize THEN ChunkSize
    ELSE IF ReaderGone THEN stdout_pipe
    ELSE -1

\* Popen.terminate(): SIGTERM to a running process; on a process that has
\* already exited, send_signal's poll() reaps it (Python >= 3.9) or
\* nothing happens (earlier versions).
Terminate(p) ==
    CASE p = "running" -> {"exited"}
      [] p = "exited" -> {"exited", "reaped"}
      [] OTHER -> {p}

\* ffmpeg_process.terminate()
do_terminate ==
    /\ terminated' = TRUE
    /\ \E p \in Terminate(ffmpeg_process) : ffmpeg_process' = p
    /\ IF ffmpeg_process = "running"
       THEN stdin_pipe' = <<>> /\ tc_pending' = 0
       ELSE UNCHANGED <<stdin_pipe, tc_pending>>

(***************************************************************************)
(* SpotifyStreamer.generate_stream: the generator stream().                *)
(***************************************************************************)

\* The first next(): Popen(...), write_t.start(), transmitted = 0.
spotify_start ==
    /\ bridge = "spotify"
    /\ stream_pc = "init"
    /\ ffmpeg_process' = "running"
    /\ write_t' = "read"
    /\ transmitted' = 0
    /\ stream_pc' = "read"
    /\ UNCHANGED <<yielded, cancelled, raised, drain_err, eof_at, terminated, waited>>
    /\ UNCHANGED <<in_chunk, n_read, input_closed, write_log, fed_at_close,
                   feeder_err, feeder_eof>>
    /\ UNCHANGED <<paramVars, stdinVars, stdoutVars, tcVars>>

\* A generator that counts a chunk it read and reads the next one without
\* yielding it.
spotify_read_skips ==
    /\ bridge = "spotify"
    /\ stream_pc = "read"
    /\ stdout_read > 0
    /\ transmitted' = transmitted + stdout_read
    /\ stdout_pipe' = stdout_pipe - stdout_read
    /\ \E kept \in BOOLEAN :
          IF kept
          THEN /\ yielded' = Append(yielded, out_chunk(stdout_read, transmitted))
               /\ stream_pc' = "yield"
          ELSE UNCHANGED <<yielded, stream_pc>>
    /\ UNCHANGED <<cancelled, raised, drain_err, eof_at, stdout_closed>>
    /\ UNCHANGED <<paramVars, procVars, stdinVars, tcVars, feederVars>>

\* out_chunk = stdout.read(...) returns data: transmitted += len; yield.
spotify_read ==
    /\ bridge = "spotify"
    /\ stream_pc = "read"
    /\ stdout_read > 0
    /\ transmitted' = transmitted + stdout_read
    /\ yielded' = Append(yielded, out_chunk(stdout_read, transmitted))
    /\ stdout_pipe' = stdout_pipe - stdout_read
    /\ stream_pc' = "yield"
    /\ UNCHANGED <<cancelled, raised, drain_err, eof_at, stdout_closed>>
    /\ UNCHANGED <<paramVars, procVars, stdinVars, tcVars, feederVars>>

\* `if not out_chunk:` the pad is yielded if needed, else `break`.
spotify_eof ==
    /\ bridge = "spotify"
    /\ stream_pc = "read"
    /\ stdout_read = 0
    /\ eof_at' = Len(yielded)
    /\ IF needs_pad(size, transmitted)
       THEN /\ yielded' = Append(yielded, pad_chunk(size, transmitted))
            /\ stream_pc' = "yield_pad"
       ELSE /\ stream_pc' = "close_stdin"
            /\ UNCHANGED yielded
    /\ UNCHANGED <<transmitted, cancelled, raised, drain_err>>
    /\ UNCHANGED <<paramVars, procVars, stdinVars, stdoutVars, tcVars, feederVars>>

\* stdout.read raises: `except: pass`, then the finally block.
spotify_read_error ==
    /\ bridge = "spotify"
    /\ stream_pc = "read"
    /\ drain_err' = TRUE
    /\ stream_pc' = "close_stdin"
    /\ UNCHANGED <<transmitted, yielded, cancelled, raised, eof_at>>
    /\ UNCHANGED <<paramVars, procVars, stdinVars, stdoutVars, tcVars, feederVars>>

\* The consumer calls next() at a yield: the loop goes on, or after the
\* pad `break` leads to the finally block.
spotify_next ==
    /\ bridge = "spotify"
    /\ stream_pc \in {"yield", "yield_pad"}
    /\ stream_pc' = IF stream_pc = "yield" THEN "read" ELSE "close_stdin"
    /\ UNCHANGED <<transmitted, yielded, cancelled, raised, drain_err, eof_at>>
    /\ UNCHANGED <<paramVars, procVars, stdinVars, stdoutVars, tcVars, feederVars>>

\* The consumer calls close(): GeneratorExit is raised at the yield, the
\* bare `except:` swallows it and the finally block runs.  A generator
\* that was never started just ends.
spotify_close ==
    /\ bridge = "spotify"
    /\ stream_pc \in {"init", "yield", "yield_pad"}
    /\ cancelled' = TRUE
    /\ stream_pc' = IF stream_pc = "init" THEN "done" ELSE "close_stdin"
    /\ UNCHANGED <<transmitted, yielded, raised, drain_err, eof_at>>
    /\ UNCHANGED <<paramVars, procVars, stdinVars, stdoutVars, tcVars, feederVars>>

\* finally: ffmpeg_process.stdin.close().  An exception here leaves the
\* generator; the rest of the finally block is skipped.
spotify_close_stdin ==
    /\ bridge = "spotify"
    /\ stream_pc = "close_stdin"
    /\ stdin_close("main",
                   stream_pc' = "close_stdout" /\ UNCHANGED raised,
                   stream_pc' = "done" /\ raised' = TRUE,
                   UNCHANGED <<stream_pc, raised>>)
    /\ UNCHANGED <<transmitted, yielded, cancelled, drain_err, eof_at>>
    /\ UNCHANGED <<paramVars, procVars, stdoutVars, tcVars, feederVars>>

\* finally: ffmpeg_process.stdout.close().
spotify_close_stdout ==
    /\ bridge = "spotify"
    /\ stream_pc = "close_stdout"
    /\ stdout_closed' = TRUE
    /\ stream_pc' = "terminate"
    /\ UNCHANGED <<transmitted, yielded, cancelled, raised, drain_err, eof_at,
                   stdout_pipe>>
    /\ UNCHANGED <<paramVars, procVars, stdinVars, tcVars, feederVars>>

\* finally: ffmpeg_process.terminate().
spotify_terminate ==
    /\ bridge = "spotify"
    /\ stream_pc = "terminate"
    /\ do_terminate
    /\ stream_pc' = "wait"
    /\ UNCHANGED <<transmitted, yielded, cancelled, raised, drain_err, eof_at>>
    /\ UNCHANGED <<waited, stdin_closed, stdin_buf, stdin_lock, produced>>
    /\ UNCHANGED <<paramVars, stdoutVars, feederVars>>

\* finally: ffmpeg_process.wait() returns once the process has exited.
spotify_wait ==
    /\ bridge = "spotify"
    /\ stream_pc = "wait"
    /\ ffmpeg_process \in {"exited", "reaped"}
    /\ ffmpeg_process' = "reaped"
    /\ waited' = TRUE
    /\ stream_pc' = "done"
    /\ UNCHANGED <<transmitted, yielded, cancelled, raised, drain_err, eof_at>>
    /\ UNCHANGED <<terminated>>
    /\ UNCHANGED <<paramVars, stdinVars, stdoutVars, tcVars, feederVars>>

spotify_stream ==
    \/ spotify_start
    \/ spotify_read
    \/ spotify_eof
    \/ spotify_read_error
    \/ spotify_next
    \/ spotify_close
    \/ spotify_close_stdin
    \/ spotify_close_stdout
    \/ spotify_terminate
    \/ spotify_wait

(***************************************************************************)
(* YouTubeStreamer.generate_stream: the generator stream().                *)
(***************************************************************************)

\* The first next(): Popen(...), transmitted = 0.
youtube_start ==
    /\ bridge = "youtube"
    /\ stream_pc = "init"
    /\ ffmpeg_process' = "running"
    /\ transmitted' = 0
    /\ stream_pc' = "read"
    /\ UNCHANGED <<yielded, cancelled, raised, drain_err, eof_at, terminated, waited>>
    /\ UNCHANGED <<paramVars, stdinVars, stdoutVars, tcVars, feederVars>>

\* chunk = stdout.read(...) returns data: transmitted += len; yield.
youtube_read ==
    /\ bridge = "youtube"
    /\ stream_pc = "read"
    /\ stdout_read > 0
    /\ transmitted' = transmitted + stdout_read
    /\ yielded' = Append(yielded, out_chunk(stdout_read, transmitted))
    /\ stdout_pipe' = stdout_pipe - stdout_read
    /\ stream_pc' = "yield"
    /\ UNCHANGED <<cancelled, raised, drain_err, eof_at, stdout_closed>>
    /\ UNCHANGED <<paramVars, procVars, stdinVars, tcVars, feederVars>>

\* `if not chunk:` stdout.close(); terminate(); the pad if needed; return.
youtube_eof ==
    /\ bridge = "youtube"
    /\ stream_pc = "read"
    /\ stdout_read = 0
    /\ eof_at' = Len(yielded)
    /\ stdout_closed' = TRUE
    /\ do_terminate
    /\ IF needs_pad(size, transmitted)
       THEN /\ yielded' = Append(yielded, pad_chunk(size, transmitted))
            /\ stream_pc' = "yield_pad"
       ELSE /\ stream_pc' = "done"
            /\ UNCHANGED yielded
    /\ UNCHANGED <<transmitted, cancelled, raised, drain_err>>
    /\ UNCHANGED <<waited, stdin_closed, stdin_buf, stdin_lock, stdout_pipe, produced>>
    /\ UNCHANGED <<paramVars, feederVars>>

\* stdout.read raises: only GeneratorExit is caught, so the error leaves
\* the generator.
youtube_read_error ==
    /\ bridge = "youtube"
    /\ stream_pc = "read"
    /\ drain_err' = TRUE
    /\ raised' = TRUE
    /\ stream_pc' = "done"
    /\ UNCHANGED <<transmitted, yielded, cancelled, eof_at>>
    /\ UNCHANGED <<paramVars, procVars, stdinVars, stdoutVars, tcVars, feederVars>>

\* The consumer calls next() at a yield: the loop goes on, or after the
\* pad `return` ends the generator.
youtube_next ==
    /\ bridge = "youtube"
    /\ stream_pc \in {"yield", "yield_pad"}
    /\ stream_pc' = IF stream_pc = "yield" THEN "read" ELSE "done"
    /\ UNCHANGED <<transmitted, yielded, cancelled, raised, drain_err, eof_at>>
    /\ UNCHANGED <<paramVars, procVars, stdinVars, stdoutVars, tcVars, feederVars>>

\* The consumer calls close(): `except GeneratorExit:` stdout.close();
\* terminate().  A generator that was never started just ends.
youtube_close ==
    /\ bridge = "youtube"
    /\ stream_pc \in {"init", "yield", "yield_pad"}
    /\ cancelled' = TRUE
    /\ stream_pc' = "done"
    /\ IF stream_pc = "init"
       THEN UNCHANGED <<stdout_closed, terminated, ffmpeg_process, stdin_pipe,
                        tc_pending>>
       ELSE stdout_closed' = TRUE /\ do_terminate
    /\ UNCHANGED <<transmitted, yielded, raised, drain_err, eof_at>>
    /\ UNCHANGED <<waited, stdin_closed, stdin_buf, stdin_lock, stdout_pipe, produced>>
    /\ UNCHANGED <<paramVars, feederVars>>

youtube_stream ==
    \/ youtube_start
    \/ youtube_read
    \/ youtube_eof
    \/ youtube_read_error
    \/ youtube_next
    \/ youtube_close

(***************************************************************************)
(* The specifications.                                                     *)
(***************************************************************************)

Next ==
    \/ spotify_stream
    \/ async_write
    \/ youtube_stream
    \/ ffmpeg

Spec == Init /\ [][Next]_vars

\* Fairness: every thread and the transcoder keep running, the upstream
\* stream keeps delivering and the consumer keeps calling next().  Nothing
\* obliges an I/O error, an early exit of ffmpeg or a close() to happen.
stream_fair ==
    \/ spotify_start
    \/ spotify_read
    \/ spotify_eof
    \/ spotify_next
    \/ spotify_close_stdin
    \/ spotify_close_stdout
    \/ spotify_terminate
    \/ spotify_wait
    \/ youtube_start
    \/ youtube_read
    \/ youtube_eof
    \/ youtube_next

async_write_fair ==
    \/ async_write_read
    \/ async_write_eof
    \/ async_write_write
    \/ async_write_writing
    \/ async_write_close
    \/ async_write_extra_read
    \/ async_write_except_close
    \/ async_write_except_close_stream

ffmpeg_fair ==
    \/ ffmpeg_read
    \/ ffmpeg_write
    \/ ffmpeg_exit

LiveSpec ==
    /\ Init
    /\ [][Next]_vars
    /\ WF_vars(stream_fair)
    /\ WF_vars(async_write_fair)
    /\ WF_vars(ffmpeg_fair)

(***************************************************************************)
(* A stream request: identifiers, the size estimate, the session.          *)
(***************************************************************************)

\* The characters of the identifiers of the model.
Alnum == {"a", "b", "7", "s", "p", "o", "t", "i", "f", "y", "r", "c", "k"}
IdChars == Alnum \cup {"-", "_"}

SpotifyIdLen == 22
YouTubeIdLen == 11

Rep(c, n) == [i \in 1..n |-> c]

\* s[i..i+n-1] is a run of n characters of `chars`.
IsRun(s, i, n, chars) ==
    /\ i + n - 1 <= Len(s)
    /\ \A k \in i..(i + n - 1) : s[k] \in chars

\* A search that returns the rightmost run.
re_search_last(s, n, chars) ==
    IF \E i \in 1..Len(s) : IsRun(s, i, n, chars)
    THEN LET i == CHOOSE i \in 1..Len(s) :
                     /\ IsRun(s, i, n, chars)
                     /\ \A j \in (i + 1)..Len(s) : ~IsRun(s, j, n, chars)
         IN  SubSeq(s, i, i + n - 1)
    ELSE <<>>

\* A search that returns the leftmost run without its last character.
re_search_short(s, n, chars) ==
    IF \E i \in 1..Len(s) : IsRun(s, i, n, chars)
    THEN LET i == CHOOSE i \in 1..Len(s) :
                     /\ IsRun(s, i, n, chars)
                     /\ \A j \in 1..(i - 1) : ~IsRun(s, j, n, chars)
         IN  SubSeq(s, i, i + n - 2)
    ELSE <<>>

\* re.search(r"([chars]{n})", s): the leftmost run, <<>> for None.
re_search(s, n, chars) ==
    IF \E i \in 1..Len(s) : IsRun(s, i, n, chars)
    THEN LET i == CHOOSE i \in 1..Len(s) :
                     /\ IsRun(s, i, n, chars)
                     /\ \A j \in 1..(i - 1) : ~IsRun(s, j, n, chars)
         IN  SubSeq(s, i, i + n - 1)
    ELSE <<>>

parse_spotify_track_id(track_id) == re_search(track_id, SpotifyIdLen, Alnum)

parse_youtube_video_id(video_id) == re_search(video_id, YouTubeIdLen, IdChars)

DefaultOffset == 20000

\* An estimate that takes a kilobit for 1000 bytes.
estimate_size_kilo(d, bitrate) == (d * bitrate * 1000) + DefaultOffset

estimate_size(d, bitrate) == (d * bitrate * 125) + DefaultOffset

\* SpotifyStreamer._extract_bitrate; 0 stands for the RuntimeError.
extract_bitrate(audio_format) ==
    CASE audio_format \in {"MP3_96", "OGG_VORBIS_96", "AAC_24_NORM"} -> 96
      [] audio_format \in {"MP3_160", "MP3_160_ENC", "OGG_VORBIS_160", "AAC_24"} -> 160
      [] audio_format \in {"MP3_320", "MP3_256", "OGG_VORBIS_320", "AAC_48"} -> 320
      [] OTHER -> 0

\* int(hq_audio.abr.replace('kbps', ''))
abr_bitrate(abr) ==
    CASE abr = "128kbps" -> 128
      [] abr = "160kbps" -> 160
      [] OTHER -> 0

\* The inputs of the model.
Routes == {"stream", "stream_spotify", "stream_youtube", "request_stream"}
Handlers == {"stream", "stream_spotify", "stream_youtube"}
Methods(r) == IF r = "stream_spotify" THEN {"GET", "HEAD"} ELSE {"GET"}
Ids == {<<>>, Rep("!", 3), Rep("a", YouTubeIdLen - 1) \o <<"-">>,
        Rep("b", SpotifyIdLen)}
Files(r) == IF r = "stream_youtube" THEN {"128kbps", "160kbps"}
                                    ELSE {"OGG_VORBIS_160", "OGG_VORBIS_320"}
Lengths == {1000 * d + 999 : d \in 1..MaxDuration}
Ranges == {NoRange,
           [start |-> 0, end |-> 0],
           [start |-> 1, end |-> estimate_size(1, 128) - 1],
           [start |-> estimate_size(MaxDuration, 320),
            end |-> estimate_size(MaxDuration, 320)]}

\* A request arrives at a server whose Spotify session was built by the
\* constructor (and may have expired since); no generator exists yet.
StreamRequest ==
    /\ route \in Routes
    /\ method \in Methods(route)
    /\ id \in Ids
    /\ download \in {"absent", "true", "false"}
    /\ range_hdr \in Ranges
    /\ track_exists \in BOOLEAN
    /\ track_ms \in Lengths
    /\ track_file \in Files(route)
    /\ valid_sessions \in {{}, {0}}

\* The server as constructed; nothing of a request has been done.
FreshServer ==
    /\ session = 0
    /\ content_feeder = 0
    /\ exc = "none"
    /\ duration = 0
    /\ status = 0
    /\ headers = NoHeaders
    /\ body = "none"
    /\ unhandled = FALSE
    /\ n_load = 0
    /\ n_init = 0
    /\ first_fail = "none"
    /\ bridge = "none"
    /\ size = 0
    /\ src_len = 0
    /\ stream_pc = "none"
    /\ NotStarted

HttpInit ==
    /\ StreamRequest
    /\ NoThreads
    /\ req_pc = "recv"
    /\ FreshServer
    /\ NoSearch
    /\ NoCall

\* What the generator's run changes; no step of the request touches it.
runVars == <<transmitted, yielded, cancelled, raised, drain_err, eof_at,
             procVars, stdinVars, stdoutVars, tcVars, feederVars>>

\* What no step of the request changes.
fixedVars == <<requestVars, trackVars, src_len, runVars, searchVars, fnVars,
               threadVars>>

(***************************************************************************)
(* The route handlers of src/server.py.                                    *)
(***************************************************************************)

\* `if not id: return "Missing ... query param", 400`, else go on at `to`.
check_param(to) ==
    /\ IF id = <<>>
       THEN /\ status' = 400
            /\ body' = "text"
            /\ req_pc' = "responded"
       ELSE /\ req_pc' = to
            /\ UNCHANGED <<status, body>>
    /\ UNCHANGED <<headers, unhandled, exc, duration, historyVars, sessionVars,
                   valid_sessions, bridge, size, stream_pc, fixedVars>>

\* The call raises `e` before anything else happens.
call_raises(e) ==
    /\ exc' = e
    /\ req_pc' = "except"
    /\ UNCHANGED <<responseVars, duration, historyVars, sessionVars,
                   valid_sessions, bridge, size, stream_pc, fixedVars>>

\* stream(): the parameters.
stream_recv ==
    /\ route = "stream"
    /\ req_pc = "recv"
    /\ check_param("parse")

\* stream(): parse_spotify_track_id(id) returns, then
\* youtube_streamer.parse_youtube_video_id is looked up: YouTubeStreamer has
\* no such attribute (its parser is _parse_youtube_video_id).
stream_parse ==
    /\ route = "stream"
    /\ req_pc = "parse"
    /\ call_raises("AttributeError")

\* stream_spotify(): the parameters.
stream_spotify_recv ==
    /\ route = "stream_spotify"
    /\ req_pc = "recv"
    /\ check_param("call")

\* stream_spotify(): spotify_streamer.request_stream(track_id) is called
\* with one argument; the method requires track_id, range_start and
\* range_end, so the call raises TypeError.
stream_spotify_call ==
    /\ route = "stream_spotify"
    /\ req_pc = "call"
    /\ call_raises("TypeError")

\* stream_youtube(): the parameters.
stream_youtube_recv ==
    /\ route = "stream_youtube"
    /\ req_pc = "recv"
    /\ check_param("call")

\* YouTubeStreamer.request_stream: the id is parsed.
youtube_request_stream_parse ==
    /\ route = "stream_youtube"
    /\ req_pc = "call"
    /\ IF parse_youtube_video_id(id) = <<>>
       THEN exc' = "StreamerError" /\ req_pc' = "except"
       ELSE req_pc' = "yt_load" /\ UNCHANGED exc
    /\ UNCHANGED <<responseVars, duration, historyVars, sessionVars,
                   valid_sessions, bridge, size, stream_pc, fixedVars>>

\* YouTubeStreamer.request_stream: the video is fetched (title, length,
\* streams), the size estimated and the generator function made.
youtube_request_stream_load ==
    /\ route = "stream_youtube"
    /\ req_pc = "yt_load"
    /\ IF ~track_exists
       THEN /\ exc' = "VideoUnavailable"
            /\ req_pc' = "except"
            /\ UNCHANGED <<duration, size, bridge>>
       ELSE /\ duration' = track_ms \div 1000
            /\ size' = estimate_size(duration', abr_bitrate(track_file))
            /\ bridge' = "youtube"
            /\ req_pc' = "headers"
            /\ UNCHANGED exc
    /\ n_load' = n_load + 1
    /\ UNCHANGED <<responseVars, n_init, first_fail, sessionVars, valid_sessions,
                   stream_pc, fixedVars>>

\* `if download:` of a query parameter: any text counts, absent does not.
truthy(dl) == dl \notin {"absent", ""}

\* The title request_stream returns for the track.
TrackTitle == "Artist - Name"

\* f'attachment; filename="{title}.mp3"'
attachment(title) == [disposition |-> "attachment", filename |-> <<title, ".mp3">>]

\* The handler's headers; str(n) is written as n.
stream_headers(sz, dur, dl) ==
    LET h == ("Content-Length" :> sz) @@ ("Audio-Duration" :> dur)
                 @@ ("Content-Type" :> "audio/mpeg")
    IN  IF truthy(dl)
        THEN h @@ ("Content-Disposition" :> attachment(TrackTitle))
        ELSE h

\* stream_youtube(): the headers are built.
stream_youtube_headers ==
    /\ route = "stream_youtube"
    /\ req_pc = "headers"
    /\ headers' = stream_headers(size, duration, download)
    /\ req_pc' = "respond"
    /\ UNCHANGED <<status, body, unhandled, exc, duration, historyVars,
                   sessionVars, valid_sessions, bridge, size, stream_pc, fixedVars>>

\* The body of the response: stream_spotify passes `{}` unless the method
\* is GET, the other handlers always pass stream().
response_body(r, m) ==
    IF r = "stream_spotify" /\ m # "GET" THEN "empty" ELSE "generator"

\* stream_youtube(): return Response(stream(), headers=headers).  Calling
\* stream() makes the generator; nothing of it runs before the first next().
stream_youtube_respond ==
    /\ route = "stream_youtube"
    /\ req_pc = "respond"
    /\ status' = 200
    /\ body' = response_body(route, method)
    /\ stream_pc' = IF body' = "generator" THEN "init" ELSE stream_pc
    /\ req_pc' = "responded"
    /\ UNCHANGED <<headers, unhandled, exc, duration, historyVars, sessionVars,
                   valid_sessions, bridge, size, fixedVars>>

\* `except StreamerError as e: return str(e), 400`; any other exception
\* leaves the handler and Flask answers 500.
handler_except ==
    /\ route \in Handlers
    /\ req_pc = "except"
    /\ IF exc = "StreamerError"
       THEN status' = 400 /\ body' = "text" /\ UNCHANGED unhandled
       ELSE status' = 500 /\ body' = "error_page" /\ unhandled' = TRUE
    /\ req_pc' = "responded"
    /\ UNCHANGED <<headers, exc, duration, historyVars, sessionVars,
                   valid_sessions, bridge, size, stream_pc, fixedVars>>

(***************************************************************************)
(* SpotifyStreamer.request_stream, called with its three parameters, and   *)
(* init_session.                                                           *)
(***************************************************************************)

\* self.content_feeder.load(...): what it does for the feeder's session
\* and the track.
load_result ==
    IF content_feeder \notin valid_sessions THEN "SessionFailure"
    ELSE IF ~track_exists THEN "NotFound"
    ELSE "ok"

\* A request_stream that builds a new session when it rejects an id.
spotify_request_stream_parse_reset ==
    /\ route = "request_stream"
    /\ req_pc = "recv"
    /\ IF parse_spotify_track_id(id) = <<>>
       THEN /\ exc' = "StreamerError"
            /\ req_pc' = "except"
            /\ session' = session + 1
            /\ content_feeder' = session + 1
       ELSE /\ req_pc' = "sp_load"
            /\ UNCHANGED <<exc, sessionVars>>
    /\ UNCHANGED <<responseVars, duration, historyVars,
                   valid_sessions, bridge, size, stream_pc, fixedVars>>

\* request_stream: the id is parsed.
spotify_request_stream_parse ==
    /\ route = "request_stream"
    /\ req_pc = "recv"
    /\ IF parse_spotify_track_id(id) = <<>>
       THEN exc' = "StreamerError" /\ req_pc' = "except"
       ELSE req_pc' = "sp_load" /\ UNCHANGED exc
    /\ UNCHANGED <<responseVars, duration, historyVars, sessionVars,
                   valid_sessions, bridge, size, stream_pc, fixedVars>>

\* request_stream: the first load, inside `try:`; `except Exception:`
\* catches whatever it raises.
spotify_request_stream_load ==
    /\ req_pc = "sp_load"
    /\ n_load' = n_load + 1
    /\ IF load_result = "ok"
       THEN req_pc' = "sp_meta" /\ UNCHANGED first_fail
       ELSE req_pc' = "init_session" /\ first_fail' = load_result
    /\ UNCHANGED <<responseVars, exc, duration, n_init, sessionVars,
                   valid_sessions, bridge, size, stream_pc, fixedVars>>

\* init_session: self.session = Session.Builder().stored_file().create().
\* The login may fail and raise; a session it returns may be one the
\* provider accepts or not.
init_session_create ==
    /\ req_pc = "init_session"
    /\ n_init' = n_init + 1
    /\ \/ /\ exc' = "SessionError"
          /\ req_pc' = "except"
          /\ UNCHANGED <<session, valid_sessions>>
       \/ /\ session' = session + 1
          /\ \E ok \in BOOLEAN :
                valid_sessions' = IF ok THEN valid_sessions \cup {session + 1}
                                        ELSE valid_sessions
          /\ req_pc' = "init_feeder"
          /\ UNCHANGED exc
    /\ UNCHANGED <<responseVars, duration, n_load, first_fail, content_feeder,
                   bridge, size, stream_pc, fixedVars>>

\* init_session: self.content_feeder = self.session.content_feeder().
init_session_feeder ==
    /\ req_pc = "init_feeder"
    /\ content_feeder' = session
    /\ req_pc' = "sp_retry"
    /\ UNCHANGED <<responseVars, exc, duration, historyVars, session,
                   valid_sessions, bridge, size, stream_pc, fixedVars>>

\* A retry that, when it fails, resets the session and tries again.
spotify_request_stream_retry_again ==
    /\ req_pc = "sp_retry"
    /\ n_load' = n_load + 1
    /\ req_pc' = IF load_result = "ok" THEN "sp_meta" ELSE "init_session"
    /\ UNCHANGED <<responseVars, exc, duration, n_init, first_fail, sessionVars,
                   valid_sessions, bridge, size, stream_pc, fixedVars>>

\* request_stream: the second load, in the except block; what it raises
\* leaves request_stream.
spotify_request_stream_retry ==
    /\ req_pc = "sp_retry"
    /\ n_load' = n_load + 1
    /\ IF load_result = "ok"
       THEN req_pc' = "sp_meta" /\ UNCHANGED exc
       ELSE req_pc' = "except" /\ exc' = load_result
    /\ UNCHANGED <<responseVars, duration, n_init, first_fail, sessionVars,
                   valid_sessions, bridge, size, stream_pc, fixedVars>>

\* A request_stream that starts the transcoder and the feeder itself.
spotify_request_stream_return_eager ==
    /\ req_pc = "sp_meta"
    /\ duration' = track_ms \div 1000
    /\ size' = estimate_size(duration', extract_bitrate(track_file))
    /\ bridge' = "spotify"
    /\ req_pc' = "returned"
    /\ ffmpeg_process' = "running"
    /\ write_t' = "read"
    /\ UNCHANGED <<responseVars, exc, historyVars, sessionVars, valid_sessions,
                   stream_pc, requestVars, trackVars, src_len, searchVars,
                   fnVars, threadVars, transmitted, yielded, cancelled, raised,
                   drain_err, eof_at, terminated, waited, stdinVars, stdoutVars,
                   tcVars, in_chunk, n_read, input_closed, write_log,
                   fed_at_close, feeder_err, feeder_eof>>

\* request_stream: the metadata, the size estimate, the generator function;
\* return (stream, title, duration, size).
spotify_request_stream_return ==
    /\ req_pc = "sp_meta"
    /\ duration' = track_ms \div 1000
    /\ size' = estimate_size(duration', extract_bitrate(track_file))
    /\ bridge' = "spotify"
    /\ req_pc' = "returned"
    /\ UNCHANGED <<responseVars, exc, historyVars, sessionVars, valid_sessions,
                   stream_pc, fixedVars>>

\* The exception reaches the caller of request_stream.
request_stream_raised ==
    /\ route = "request_stream"
    /\ req_pc = "except"
    /\ req_pc' = "raised"
    /\ UNCHANGED <<responseVars, exc, duration, historyVars, sessionVars,
                   valid_sessions, bridge, size, stream_pc, fixedVars>>

\* The caller calls the returned stream() to iterate it.
request_stream_iterate ==
    /\ route = "request_stream"
    /\ req_pc = "returned"
    /\ stream_pc' = "init"
    /\ req_pc' = "iterating"
    /\ UNCHANGED <<responseVars, exc, duration, historyVars, sessionVars,
                   valid_sessions, bridge, size, fixedVars>>

\* One stream request, up to the first next() of the body or its close().
HttpNext ==
    \/ stream_recv
    \/ stream_parse
    \/ stream_spotify_recv
    \/ stream_spotify_call
    \/ stream_youtube_recv
    \/ youtube_request_stream_parse
    \/ youtube_request_stream_load
    \/ stream_youtube_headers
    \/ stream_youtube_respond
    \/ handler_except
    \/ spotify_request_stream_parse
    \/ spotify_request_stream_load
    \/ init_session_create
    \/ init_session_feeder
    \/ spotify_request_stream_retry
    \/ spotify_request_stream_return
    \/ request_stream_raised
    \/ request_stream_iterate
    \/ spotify_start
    \/ youtube_start
    \/ spotify_close
    \/ youtube_close

HttpSpec == HttpInit /\ [][HttpNext]_vars

(***************************************************************************)
(* Search: the parameters, the providers' catalogs, the entries.           *)
(***************************************************************************)

DigitVal ==
    ("0" :> 0) @@ ("1" :> 1) @@ ("2" :> 2) @@ ("3" :> 3) @@ ("4" :> 4) @@
    ("5" :> 5) @@ ("6" :> 6) @@ ("7" :> 7) @@ ("8" :> 8) @@ ("9" :> 9)

\* int(text) does not raise ValueError (texts of digits, or of no digit).
is_int(text) == text # <<>> /\ \A i \in 1..Len(text) : text[i] \in DOMAIN DigitVal

RECURSIVE int_of(_)
int_of(text) ==
    IF text = <<>> THEN 0
    ELSE 10 * int_of(SubSeq(text, 1, Len(text) - 1)) + DigitVal[text[Len(text)]]

DefaultLimit == 20

\* int(request.args.get('limit', 20)), when it does not raise.
search_limit(l) == IF l.present THEN int_of(l.text) ELSE DefaultLimit

\* Most hits a provider has for the query.
MaxHits == 2

SpotifyUriPrefix == <<"s", "p", "o", "t", "i", "f", "y", ":", "t", "r", "a", "c", "k", ":">>

\* The k-th track and video of the catalogs.
SpotifyTrack(k) ==
    LET track_id == Rep("a", SpotifyIdLen - k) \o Rep("b", k)
    IN  [id |-> track_id, uri |-> SpotifyUriPrefix \o track_id,
         artists |-> <<"Artist">>, name |-> <<"track", k>>]

YouTubeVideo(k) ==
    [videoId |-> Rep("a", YouTubeIdLen - 1 - k) \o <<"-">> \o Rep("b", k),
     title |-> <<"video", k>>]

\* The first n hits: what a provider returns for a limit of n.
take(hits, n) == SubSeq(hits, 1, IF n < Len(hits) THEN n ELSE Len(hits))

\* urllib.parse.quote_plus of one character: letters, digits and "_.-~"
\* stay, a space becomes "+", anything else is percent-encoded.
quote_char(c) ==
    IF c \in IdChars \cup {".", "~"} THEN <<c>>
    ELSE IF c = " " THEN <<"+">>
    ELSE <<"%", c>>

RECURSIVE quote_plus(_)
quote_plus(text) ==
    IF text = <<>> THEN <<>> ELSE quote_char(Head(text)) \o quote_plus(Tail(text))

\* The decoding of a query value by request.args.
RECURSIVE unquote_plus(_)
unquote_plus(text) ==
    IF text = <<>> THEN <<>>
    ELSE IF Head(text) = "%" /\ Len(text) >= 2
         THEN <<text[2]>> \o unquote_plus(SubSeq(text, 3, Len(text)))
    ELSE IF Head(text) = "+" THEN <<" ">> \o unquote_plus(Tail(text))
    ELSE <<Head(text)>> \o unquote_plus(Tail(text))

\* utils.construct_url(path, scheme, **{name: value}): the netloc of the
\* request's url_root, the path, the url-encoded query.
construct_url(netloc, path, scheme, name, value) ==
    [scheme |-> scheme, netloc |-> netloc, path |-> path,
     query |-> <<<<name, quote_plus(value)>>>>]

spotify_stream_path == "/stream/spotify"
youtube_stream_path == "/stream/youtube"

Entry(title, url, source) == [title |-> title, url |-> url, source |-> source]

\* SpotifyStreamer.search: the entry of one item.
spotify_entry(item, netloc) ==
    Entry(<<item.artists, " - ", item.name>>,
          construct_url(netloc, spotify_stream_path, "https", "trackId",
                        parse_spotify_track_id(item.uri)),
          "Spotify")

\* A search that puts the video id under the name YouTube's own URLs use.
youtube_entry_v(item, netloc) ==
    Entry(item.title,
          construct_url(netloc, youtube_stream_path, "https", "v", item.videoId),
          "YouTube")

\* YouTubeStreamer.search: the entry of one item.
youtube_entry(item, netloc) ==
    Entry(item.title,
          construct_url(netloc, youtube_stream_path, "https", "videoId",
                        item.videoId),
          "YouTube")

\* The inputs of a search.
SearchRoutes == {"search", "search_spotify", "search_youtube"}
Queries == {<<>>, <<"q">>}
Limits == {NoLimit} \cup
          {[present |-> TRUE, text |-> t] : t \in {<<"x">>, <<"1">>, <<"3">>, <<"2", "0">>}}
Hosts == {"host", "other.host"}

SearchRequest ==
    /\ route \in SearchRoutes
    /\ q \in Queries
    /\ limit \in Limits
    /\ host \in Hosts
    /\ \E n \in 0..MaxHits : spotify_catalog = [k \in 1..n |-> SpotifyTrack(k)]
    /\ \E n \in 0..MaxHits : youtube_catalog = [k \in 1..n |-> YouTubeVideo(k)]
    /\ calls = <<>>
    /\ returned = <<>>
    /\ spotify_results = <<>>
    /\ youtube_results = <<>>
    /\ results = <<>>

(***************************************************************************)
(* The login, version() and the search handlers of src/server.py.          *)
(***************************************************************************)

\* What no step of the login, of version() or of a search changes.
searchFixed == <<requestVars, upstreamVars, sessionVars, historyVars, duration,
                 headers, bridge, size, src_len, stream_pc, runVars, fnVars,
                 threadVars, credentials, host, q, limit, spotify_catalog, youtube_catalog>>

\* The handlers decorated with @auth.login_required.
Protected == {"search", "stream", "search_spotify", "search_youtube",
              "stream_spotify", "stream_youtube"}

Credentials == [username : {"user", "other"}, password : {"secret", "other"}]

verify_password(username, password) ==
    username = Secrets.username /\ password = Secrets.password

\* @auth.login_required: the handler runs only if verify_password accepts
\* the credentials, else the answer is 401.
login_required ==
    /\ route \in Protected
    /\ req_pc = "auth"
    /\ IF verify_password(credentials.username, credentials.password)
       THEN /\ req_pc' = "recv"
            /\ UNCHANGED <<status, body>>
       ELSE /\ status' = 401
            /\ body' = "text"
            /\ req_pc' = "responded"
    /\ UNCHANGED <<exc, unhandled, results, calls, returned, spotify_results,
                   youtube_results, searchFixed>>

Version(v) == [version |-> v]

\* version(): return jsonify(Version('0.0.3')).
version ==
    /\ route = "version"
    /\ req_pc = "recv"
    /\ results' = Version("0.0.3")
    /\ status' = 200
    /\ body' = "json"
    /\ req_pc' = "responded"
    /\ UNCHANGED <<exc, unhandled, calls, returned, spotify_results,
                   youtube_results, searchFixed>>

\* The first lines of the three search handlers: q is read, limit is read
\* and converted, then `if not search_query: return ..., 400`.
search_params(to) ==
    /\ IF limit.present /\ ~is_int(limit.text)
       THEN /\ exc' = "ValueError"
            /\ req_pc' = "except"
            /\ UNCHANGED <<status, body>>
       ELSE IF q = <<>>
       THEN /\ status' = 400
            /\ body' = "text"
            /\ req_pc' = "responded"
            /\ UNCHANGED exc
       ELSE /\ req_pc' = to
            /\ UNCHANGED <<status, body, exc>>
    /\ UNCHANGED <<unhandled, results, calls, returned, spotify_results,
                   youtube_results, searchFixed>>

\* What SpotifyStreamer.search and YouTubeStreamer.search return when the
\* provider answers.
spotify_search(lim) ==
    [i \in 1..Len(take(spotify_catalog, lim)) |->
        spotify_entry(spotify_catalog[i], host)]

youtube_search(lim) ==
    [i \in 1..Len(take(youtube_catalog, lim)) |->
        youtube_entry(youtube_catalog[i], host)]

search_recv ==
    /\ route = "search"
    /\ req_pc = "recv"
    /\ search_params("search_spotify")

\* search(): spotify_streamer.search(query, limit // 2); it returns the
\* entries or the provider's error leaves it.
search_call_spotify ==
    /\ route = "search"
    /\ req_pc = "search_spotify"
    /\ LET lim == search_limit(limit) \div 2
       IN  /\ calls' = Append(calls, [provider |-> "Spotify", limit |-> lim])
           /\ \/ /\ exc' = "SpotifyException"
                 /\ req_pc' = "except"
                 /\ UNCHANGED <<spotify_results, returned>>
              \/ /\ spotify_results' = spotify_search(lim)
                 /\ returned' = Append(returned,
                        [provider |-> "Spotify", hits |-> take(spotify_catalog, lim)])
                 /\ req_pc' = "search_youtube"
                 /\ UNCHANGED exc
    /\ UNCHANGED <<status, body, unhandled, results, youtube_results, searchFixed>>

\* A search that gives the second provider what the halving left over.
search_call_youtube_rest ==
    /\ route = "search"
    /\ req_pc = "search_youtube"
    /\ LET lim == search_limit(limit) - (search_limit(limit) \div 2)
       IN  /\ calls' = Append(calls, [provider |-> "YouTube", limit |-> lim])
           /\ youtube_results' = youtube_search(lim)
           /\ returned' = Append(returned,
                  [provider |-> "YouTube", hits |-> take(youtube_catalog, lim)])
           /\ req_pc' = "search_return"
    /\ UNCHANGED <<exc, status, body, unhandled, results, spotify_results, searchFixed>>

\* search(): youtube_streamer.search(query, limit // 2).
search_call_youtube ==
    /\ route = "search"
    /\ req_pc = "search_youtube"
    /\ LET lim == search_limit(limit) \div 2
       IN  /\ calls' = Append(calls, [provider |-> "YouTube", limit |-> lim])
           /\ \/ /\ exc' = "PyYouTubeException"
                 /\ req_pc' = "except"
                 /\ UNCHANGED <<youtube_results, returned>>
              \/ /\ youtube_results' = youtube_search(lim)
                 /\ returned' = Append(returned,
                        [provider |-> "YouTube", hits |-> take(youtube_catalog, lim)])
                 /\ req_pc' = "search_return"
                 /\ UNCHANGED exc
    /\ UNCHANGED <<status, body, unhandled, results, spotify_results, searchFixed>>

\* A search that returns the providers' lists the other way round.
search_return_swapped ==
    /\ route = "search"
    /\ req_pc = "search_return"
    /\ results' = youtube_results \o spotify_results
    /\ status' = 200
    /\ body' = "json"
    /\ req_pc' = "responded"
    /\ UNCHANGED <<exc, unhandled, calls, returned, spotify_results,
                   youtube_results, searchFixed>>

\* search(): return jsonify(spotify_results + youtube_results).
search_return ==
    /\ route = "search"
    /\ req_pc = "search_return"
    /\ results' = spotify_results \o youtube_results
    /\ status' = 200
    /\ body' = "json"
    /\ req_pc' = "responded"
    /\ UNCHANGED <<exc, unhandled, calls, returned, spotify_results,
                   youtube_results, searchFixed>>

search_spotify_recv ==
    /\ route = "search_spotify"
    /\ req_pc = "recv"
    /\ search_params("call")

\* search_spotify(): results = spotify_streamer.search(query, limit);
\* return jsonify(results).
search_spotify_call ==
    /\ route = "search_spotify"
    /\ req_pc = "call"
    /\ LET lim == search_limit(limit)
       IN  /\ calls' = Append(calls, [provider |-> "Spotify", limit |-> lim])
           /\ \/ /\ exc' = "SpotifyException"
                 /\ req_pc' = "except"
                 /\ UNCHANGED <<spotify_results, results, returned, status, body>>
              \/ /\ spotify_results' = spotify_search(lim)
                 /\ results' = spotify_results'
                 /\ returned' = Append(returned,
                        [provider |-> "Spotify", hits |-> take(spotify_catalog, lim)])
                 /\ status' = 200
                 /\ body' = "json"
                 /\ req_pc' = "responded"
                 /\ UNCHANGED exc
    /\ UNCHANGED <<unhandled, youtube_results, searchFixed>>

search_youtube_recv ==
    /\ route = "search_youtube"
    /\ req_pc = "recv"
    /\ search_params("call")

\* search_youtube(): results = youtube_streamer.search(query, limit);
\* return jsonify(results).
search_youtube_call ==
    /\ route = "search_youtube"
    /\ req_pc = "call"
    /\ LET lim == search_limit(limit)
       IN  /\ calls' = Append(calls, [provider |-> "YouTube", limit |-> lim])
           /\ \/ /\ exc' = "PyYouTubeException"
                 /\ req_pc' = "except"
                 /\ UNCHANGED <<youtube_results, results, returned, status, body>>
              \/ /\ youtube_results' = youtube_search(lim)
                 /\ results' = youtube_results'
                 /\ returned' = Append(returned,
                        [provider |-> "YouTube", hits |-> take(youtube_catalog, lim)])
                 /\ status' = 200
                 /\ body' = "json"
                 /\ req_pc' = "responded"
                 /\ UNCHANGED exc
    /\ UNCHANGED <<unhandled, spotify_results, searchFixed>>

\* The search handlers catch nothing: the exception leaves the handler and
\* Flask answers 500.
search_unhandled ==
    /\ route \in SearchRoutes
    /\ req_pc = "except"
    /\ status' = 500
    /\ body' = "error_page"
    /\ unhandled' = TRUE
    /\ req_pc' = "responded"
    /\ UNCHANGED <<exc, results, calls, returned, spotify_results,
                   youtube_results, searchFixed>>

\* A request of any kind arrives at the server.
ApiInit ==
    /\ FreshServer
    /\ NoThreads
    /\ NoCall
    /\ \/ StreamRequest /\ NoSearchRequest
       \/ SearchRequest /\ NoStreamRequest
       \/ route = "version" /\ NoStreamRequest /\ NoSearchRequest
    /\ credentials \in IF route = "request_stream" THEN {Secrets} ELSE Credentials
    /\ req_pc = IF route \in Protected THEN "auth" ELSE "recv"

ApiNext ==
    \/ login_required
    \/ version
    \/ search_recv
    \/ search_call_spotify
    \/ search_call_youtube
    \/ search_return
    \/ search_spotify_recv
    \/ search_spotify_call
    \/ search_youtube_recv
    \/ search_youtube_call
    \/ search_unhandled
    \/ HttpNext

ApiSpec == ApiInit /\ [][ApiNext]_vars

(***************************************************************************)
(* The pure functions, called on their own: estimate_size of               *)
(* src/streamers/utils.py and the two identifier parsers.                  *)
(***************************************************************************)

MaxSeconds == 8
MaxKbps == 8
MaxSegments == 2

\* Durations and bitrates: the small ones, and those of a real track.
Durations == 0..MaxSeconds \cup {200}
Bitrates == 1..MaxKbps \cup {96, 160, 320}

\* Free-form input of a parser: runs of one character each, shorter than,
\* as long as and longer than an identifier, of characters inside and
\* outside the two alphabets.
SegmentChars == {"a", "b", "-", "!"}
SegmentLens == {1, YouTubeIdLen - 1, YouTubeIdLen, SpotifyIdLen - 1, SpotifyIdLen}
Segments == {Rep(c, n) : c \in SegmentChars, n \in SegmentLens}

RECURSIVE Texts(_)
Texts(n) ==
    IF n = 0 THEN {<<>>}
    ELSE Texts(n - 1) \cup {t \o s : t \in Texts(n - 1), s \in Segments}

Parsers == {"parse_spotify_track_id", "_parse_youtube_video_id"}

\* What the function called fn returns for the argument arg.
apply(fn, arg) ==
    IF fn = "estimate_size" THEN estimate_size(arg[1], arg[2])
    ELSE IF fn = "parse_spotify_track_id" THEN parse_spotify_track_id(arg)
    ELSE parse_youtube_video_id(arg)

\* What no call of a function changes.
pureFixed == <<bridge, size, src_len, stream_pc, runVars, requestVars,
               upstreamVars, sessionVars, responseVars, historyVars, req_pc,
               exc, duration, searchVars, threadVars, fn_name, fn_arg>>

\* One of the functions is about to be called; no request, no stream.
PureInit ==
    /\ NoHttp
    /\ bridge = "none"
    /\ size = 0
    /\ src_len = 0
    /\ stream_pc = "none"
    /\ NotStarted
    /\ fn_name \in {"estimate_size"} \cup Parsers
    /\ fn_arg \in IF fn_name = "estimate_size" THEN Durations \X Bitrates
                                                ELSE Texts(MaxSegments)
    /\ fn_res = <<>>

\* estimate_size(duration, bitrate) is called, and called once more.
call_estimate_size ==
    /\ fn_name = "estimate_size"
    /\ Len(fn_res) < 2
    /\ fn_res' = Append(fn_res, apply(fn_name, fn_arg))
    /\ UNCHANGED pureFixed

\* A parser is called on the input.
call_parser ==
    /\ fn_name \in Parsers
    /\ fn_res = <<>>
    /\ fn_res' = <<apply(fn_name, fn_arg)>>
    /\ UNCHANGED pureFixed

\* The parser is called on the identifier it returned.
call_parser_again ==
    /\ fn_name \in Parsers
    /\ Len(fn_res) = 1
    /\ fn_res[1] # <<>>
    /\ fn_res' = Append(fn_res, apply(fn_name, fn_res[1]))
    /\ UNCHANGED pureFixed

PureNext ==
    \/ call_estimate_size
    \/ call_parser
    \/ call_parser_again

PureSpec == PureInit /\ [][PureNext]_vars

(***************************************************************************)
(* Concurrent calls of SpotifyStreamer.request_stream on the one          *)
(* SpotifyStreamer of the module (src/server.py:13).  The class takes no   *)
(* lock; a thread can be preempted between any two bytecodes, so each      *)
(* attribute read and each attribute store of init_session is a step of    *)
(* its own.  Each thread has passed the id check.  Calls overlap when the  *)
(* WSGI application `app` is served by threads; bjoern, which server.py    *)
(* starts when run as a script, calls the handlers one at a time.          *)
(***************************************************************************)

\* What no step of a thread changes.
threadFixed == <<bridge, size, src_len, stream_pc, runVars, requestVars,
                 trackVars, responseVars, n_load, first_fail, req_pc, exc,
                 duration, searchVars, fnVars>>

ConcInit ==
    /\ FreshServer
    /\ NoSearch
    /\ NoCall
    /\ route = "none"
    /\ req_pc = "none"
    /\ method = "GET"
    /\ id = <<>>
    /\ download = "absent"
    /\ range_hdr = NoRange
    /\ track_exists \in BOOLEAN
    /\ track_ms = 0
    /\ track_file = "none"
    /\ valid_sessions \in {{}, {0}}
    /\ thread_pc = [t \in Threads |-> "load"]
    /\ thread_tmp = [t \in Threads |-> 0]

\* request_stream: the first load, with the feeder self.content_feeder
\* names now; any exception leads to init_session.
thread_load ==
    \E t \in Threads :
        /\ thread_pc[t] = "load"
        /\ thread_pc' = [thread_pc EXCEPT
                            ![t] = IF load_result = "ok" THEN "done" ELSE "create"]
        /\ UNCHANGED <<thread_tmp, sessionVars, valid_sessions, n_init, threadFixed>>

\* init_session: Session.Builder().stored_file().create() returns a new
\* session, held on the thread's stack, or raises.
thread_create ==
    \E t \in Threads :
        /\ thread_pc[t] = "create"
        /\ n_init' = n_init + 1
        /\ \/ /\ thread_pc' = [thread_pc EXCEPT ![t] = "raised"]
              /\ UNCHANGED <<thread_tmp, valid_sessions>>
           \/ /\ thread_tmp' = [thread_tmp EXCEPT ![t] = n_init + 1]
              /\ \E ok \in BOOLEAN :
                    valid_sessions' = IF ok THEN valid_sessions \cup {n_init + 1}
                                            ELSE valid_sessions
              /\ thread_pc' = [thread_pc EXCEPT ![t] = "store_session"]
        /\ UNCHANGED <<sessionVars, threadFixed>>

\* init_session: the store into self.session.
thread_store_session ==
    \E t \in Threads :
        /\ thread_pc[t] = "store_session"
        /\ session' = thread_tmp[t]
        /\ thread_pc' = [thread_pc EXCEPT ![t] = "read_session"]
        /\ UNCHANGED <<thread_tmp, content_feeder, valid_sessions, n_init, threadFixed>>

\* init_session: self.session.content_feeder(), the feeder of the session
\* self.session names now, held on the thread's stack.
thread_read_session ==
    \E t \in Threads :
        /\ thread_pc[t] = "read_session"
        /\ thread_tmp' = [thread_tmp EXCEPT ![t] = session]
        /\ thread_pc' = [thread_pc EXCEPT ![t] = "store_feeder"]
        /\ UNCHANGED <<sessionVars, valid_sessions, n_init, threadFixed>>

\* init_session: the store into self.content_feeder.
thread_store_feeder ==
    \E t \in Threads :
        /\ thread_pc[t] = "store_feeder"
        /\ content_feeder' = thread_tmp[t]
        /\ thread_pc' = [thread_pc EXCEPT ![t] = "retry"]
        /\ UNCHANGED <<thread_tmp, session, valid_sessions, n_init, threadFixed>>

\* request_stream: the second load; what it raises leaves request_stream.
thread_retry ==
    \E t \in Threads :
        /\ thread_pc[t] = "retry"
        /\ thread_pc' = [thread_pc EXCEPT
                            ![t] = IF load_result = "ok" THEN "done" ELSE "raised"]
        /\ UNCHANGED <<thread_tmp, sessionVars, valid_sessions, n_init, threadFixed>>

ConcNext ==
    \/ thread_load
    \/ thread_create
    \/ thread_store_session
    \/ thread_read_session
    \/ thread_store_feeder
    \/ thread_retry

ConcSpec == ConcInit /\ [][ConcNext]_vars

(***************************************************************************)
(* The claims.                                                             *)
(***************************************************************************)

Finished == stream_pc = "done"

\* C1: when the consumer pulls until the generator finishes (and no read of
\* the transcoder's output fails), the chunks it received add up to
\* exactly the declared size, for either bridge.
C1_TotalEqualsDeclared ==
    (Finished /\ ~cancelled /\ ~drain_err /\ ~raised /\ ffmpeg_process # "none")
        => Total = size

\* C2: at every point of every run the bytes yielded so far are at most the
\* declared size.
C2_NeverExceedsDeclared == Total <= size

\* C3: Spotify, the consumer closed the generator after at least one chunk:
\* once the generator has finished, stdin and stdout are closed,
\* terminate() was called and wait() has returned.
C3_CancelCleansUp ==
    (bridge = "spotify" /\ cancelled /\ Finished /\ Len(yielded) >= 1)
        => (stdin_closed /\ stdout_closed /\ terminated /\ waited)

\* C4: YouTube, once the generator has finished (however it ended) the
\* transcoder is neither running nor an unreaped zombie.
C4_YouTubeNoLeak ==
    (bridge = "youtube" /\ Finished) => ffmpeg_process \in {"none", "reaped"}

\* C5: Spotify, the consumer closed the generator after fewer than size
\* bytes: eventually the generator's cleanup completes and the transcoder
\* is not running.
C5_CancelTerminates ==
    (bridge = "spotify" /\ cancelled /\ Total < size)
        ~> (Finished /\ ffmpeg_process # "running")

DataTotal == SumLen(SelectSeq(yielded, LAMBDA c : ~c.pad))

\* C7: once the transcoder's output has reached end-of-stream, if the bytes
\* yielded until then are fewer than the declared size exactly one more
\* chunk follows, all zeros and as long as the difference, and it is the
\* last; otherwise no chunk follows.  No zero chunk is yielded before.
C7_PadAtEof ==
    /\ \A i \in 1..Len(yielded) :
          yielded[i].pad => (eof_at # -1 /\ i = eof_at + 1)
    /\ eof_at # -1 =>
          IF DataTotal < size
          THEN /\ Len(yielded) = eof_at + 1
               /\ yielded[eof_at + 1].pad
               /\ yielded[eof_at + 1].len = size - DataTotal
          ELSE Len(yielded) = eof_at

\* C8: a read of the transcoder's output failed after some chunks were
\* yielded and the consumer kept pulling: the chunks received still add
\* up to the declared size (the rest is zeros).
C8_ReadErrorPads ==
    (drain_err /\ Finished /\ ~cancelled /\ Len(yielded) >= 1 /\ Total <= size)
        => Total = size

\* C9: Spotify, the feeder hit an I/O error and the consumer kept pulling:
\* no error reaches the consumer and the chunks received add up to
\* exactly the declared size.
C9_FeederErrorSilent ==
    (bridge = "spotify" /\ feeder_err /\ Finished /\ ~cancelled /\ ~drain_err)
        => (~raised /\ Total = size)

\* C10: the feeder writes the upstream chunks in the order read, none
\* skipped, each one before it reads the next; absent an error it closes
\* ffmpeg's stdin only at end-of-input, after every chunk was written, and
\* it does close it then; it writes nothing after its close.
C10_FeederOrderAndClose ==
    /\ \A i \in 1..Len(write_log) : write_log[i] = i
    /\ (write_t = "read" /\ ~feeder_err) => Len(write_log) = n_read
    /\ (fed_at_close # -1 /\ ~feeder_err) =>
          (feeder_eof /\ n_read = src_len /\ Len(write_log) = src_len)
    /\ fed_at_close # -1 => Len(write_log) = fed_at_close
    /\ (write_t \in {"extra_read", "done"} /\ ~feeder_err) =>
          (stdin_closed /\ fed_at_close # -1)

(***************************************************************************)
(* States in which the confirmed claims' cases have happened.              *)
(***************************************************************************)

C7_Witness ==
    /\ eof_at >= 1
    /\ Len(yielded) = eof_at + 1
    /\ yielded[eof_at + 1].pad
    /\ yielded[eof_at + 1].len = size - DataTotal
    /\ Finished

\* The feeder wrote every chunk, closed ffmpeg's stdin at end-of-input and
\* ended.
C10_Witness ==
    /\ write_t = "done"
    /\ ~feeder_err
    /\ src_len = MaxSrc
    /\ Len(write_log) = MaxSrc
    /\ fed_at_close = MaxSrc
    /\ stdin_closed

(***************************************************************************)
(* Claims C11..C20.                                                        *)
(***************************************************************************)

\* C11: the chunks of transcoder output reach the consumer in the order the
\* transcoder produced them: each one starts at the byte of the output
\* where the previous one ended, and they are bytes the transcoder has
\* produced.  The bridge never holds more than one chunk that it has read
\* and not yielded.
C11_OrderedOneChunk ==
    /\ \A i \in 1..Len(yielded) :
          ~yielded[i].pad =>
              /\ yielded[i].off = SumLen(SubSeq(yielded, 1, i - 1))
              /\ \A j \in 1..(i - 1) : ~yielded[j].pad
    /\ DataTotal + stdout_pipe <= produced
    /\ transmitted - DataTotal >= 0
    /\ transmitted - DataTotal <= ChunkSize
    /\ stream_pc \in {"yield", "yield_pad", "done"} => transmitted = DataTotal

\* Two whole chunks of output were yielded, one after the other, and more
\* output is waiting in the pipe.
C11_Witness ==
    /\ Len(yielded) >= 2
    /\ ~yielded[1].pad /\ yielded[1].len = ChunkSize
    /\ ~yielded[2].pad /\ yielded[2].off = ChunkSize
    /\ stdout_pipe > 0

\* The call of request_stream has returned or raised.
CallDone == req_pc \in {"returned", "iterating", "raised"}

\* C12: one call of SpotifyStreamer.request_stream makes at most two loads
\* and at most one init_session; none and one load when the first load
\* succeeds; when the first load fails, exactly one init_session and, once
\* it has returned, exactly one more load.
C12_RecoveryOnce ==
    route = "request_stream" =>
        /\ n_load <= 2
        /\ n_init <= 1
        /\ first_fail = "none" => (n_init = 0 /\ n_load <= 1)
        /\ (CallDone /\ first_fail = "none" /\ exc = "none") => n_load = 1
        /\ (CallDone /\ first_fail # "none") =>
              /\ n_init = 1
              /\ n_load = IF exc = "SessionError" THEN 1 ELSE 2

\* The first load failed, the session was rebuilt and the second load
\* succeeded: request_stream returned.
C12_Witness ==
    /\ route = "request_stream"
    /\ req_pc = "returned"
    /\ first_fail = "SessionFailure"
    /\ n_init = 1
    /\ n_load = 2
    /\ content_feeder = session
    /\ session = 1

\* C13: when the retried load fails too, or the rebuild fails, what leaves
\* request_stream is the upstream failure the handlers answer with 400
\* (StreamerError), and a handler that got it answers 400 with a text body
\* and lets no exception escape.
C13_SecondFailureIs400 ==
    /\ (route = "request_stream" /\ req_pc = "raised" /\ first_fail # "none")
          => exc = "StreamerError"
    /\ (route \in Handlers /\ req_pc = "responded" /\ first_fail # "none")
          => (status = 400 /\ body = "text" /\ ~unhandled)

\* C14: a first load that fails for the session is followed by a rebuild; a
\* first load that fails because the track is not found is not.
C14_NotFoundNoRebuild ==
    /\ (CallDone /\ first_fail = "SessionFailure") => n_init = 1
    /\ first_fail = "NotFound" => n_init = 0

\* The id matches the pattern of the route (of either provider on /stream).
WellFormed ==
    CASE route = "stream_spotify" -> parse_spotify_track_id(id) # <<>>
      [] route = "stream_youtube" -> parse_youtube_video_id(id) # <<>>
      [] OTHER -> \/ parse_spotify_track_id(id) # <<>>
                  \/ parse_youtube_video_id(id) # <<>>

Responded == route \in Handlers /\ req_pc = "responded"

\* C15: on each of the three stream routes a request whose id is present
\* and matches no pattern is answered 400, and no load was made.
C15_UnmatchedId400 ==
    (Responded /\ id # <<>> /\ ~WellFormed) => (status = 400 /\ n_load = 0)

\* The provider resolves the requested track with the session it has.
Resolvable == WellFormed /\ track_exists /\ valid_sessions = {0}

\* The declared size of the requested track.
DeclaredSize ==
    estimate_size(track_ms \div 1000,
                  IF route = "stream_youtube" THEN abr_bitrate(track_file)
                                              ELSE extract_bitrate(track_file))

\* The request came in on a provider's own stream route.
OnProviderRoute == route \in {"stream_spotify", "stream_youtube"}

\* C16: a GET on a provider's stream route for a well-formed id the
\* provider resolves is answered 200 with Content-Length =
\* estimate_size(duration, bitrate), the size the bridge is given; no
\* transcoder runs before the response has it.
C16_ContentLengthIsEstimate ==
    /\ (Responded /\ OnProviderRoute /\ method = "GET" /\ Resolvable) =>
          /\ status = 200
          /\ "Content-Length" \in DOMAIN headers
          /\ headers["Content-Length"] = DeclaredSize
          /\ size = DeclaredSize
    /\ (route \in Handlers /\ ffmpeg_process # "none") =>
          (status = 200 /\ headers["Content-Length"] = size)

\* C17: a request without a Range header (for a track the provider
\* resolves) is answered 200 with Content-Length equal to the declared size
\* and without a Content-Range header.
C17_NoRangeIs200 ==
    (Responded /\ OnProviderRoute /\ Resolvable /\ range_hdr = NoRange) =>
        /\ status = 200
        /\ "Content-Length" \in DOMAIN headers
        /\ headers["Content-Length"] = DeclaredSize
        /\ "Content-Range" \notin DOMAIN headers

\* The request was served: the track was loaded and its size declared.
Served == Responded /\ Resolvable /\ size = DeclaredSize

ValidRange ==
    /\ 0 <= range_hdr.start
    /\ range_hdr.start <= range_hdr.end
    /\ range_hdr.end < DeclaredSize

\* C18: a served request with a valid range (start, end) is answered 206 with
\* Content-Range: bytes start-end/declaredSize, Content-Length =
\* end - start + 1 and Accept-Ranges: bytes.
C18_ValidRangeIs206 ==
    (Served /\ ValidRange) =>
        /\ status = 206
        /\ {"Content-Range", "Content-Length", "Accept-Ranges"} \subseteq DOMAIN headers
        /\ headers["Content-Range"] = <<"bytes", range_hdr.start, range_hdr.end, DeclaredSize>>
        /\ headers["Content-Length"] = range_hdr.end - range_hdr.start + 1
        /\ headers["Accept-Ranges"] = "bytes"

\* C19: a served request whose range starts at or beyond the declared size
\* is answered 416.
C19_RangeBeyondIs416 ==
    (Served /\ range_hdr.start >= DeclaredSize) => status = 416

\* C20: a HEAD request on the Spotify stream route gets the Content-Length,
\* Audio-Duration and Content-Type of the GET, an empty body, and starts
\* neither the transcoder nor the feeder thread.
C20_HeadHasHeadersNoBody ==
    (route = "stream_spotify" /\ method = "HEAD") =>
        /\ ffmpeg_process = "none"
        /\ write_t = "none"
        /\ stream_pc = "none"
        /\ (req_pc = "responded" /\ Resolvable) =>
              /\ status = 200
              /\ body = "empty"
              /\ {"Content-Length", "Audio-Duration", "Content-Type"} \subseteq DOMAIN headers
              /\ headers["Content-Length"] = DeclaredSize
              /\ headers["Audio-Duration"] = track_ms \div 1000
              /\ headers["Content-Type"] = "audio/mpeg"

(***************************************************************************)
(* Claims C21..C30.                                                        *)
(***************************************************************************)

\* C21: every successful stream response has a Content-Disposition header
\* with filename "<title>.mp3", 'attachment' when download is true and
\* 'inline' when it is false or absent.
C21_ContentDisposition ==
    (Served /\ status = 200) =>
        /\ "Content-Disposition" \in DOMAIN headers
        /\ headers["Content-Disposition"].filename = <<TrackTitle, ".mp3">>
        /\ headers["Content-Disposition"].disposition =
              IF download = "true" THEN "attachment" ELSE "inline"

\* C22: given a total limit N, the federated search gives each of the two
\* providers a sub-request with limit N div 2: twice the sub-limit is N or
\* N - 1, the remainder goes to no provider, Spotify is asked first and
\* YouTube second, and limit=20 (given or by default) gives each provider 10.
C22_HalfLimitEach ==
    route = "search" =>
        /\ Len(calls) <= 2
        /\ \A i \in 1..Len(calls) :
              /\ calls[i].provider = <<"Spotify", "YouTube">>[i]
              /\ 2 * calls[i].limit <= search_limit(limit)
              /\ search_limit(limit) < 2 * calls[i].limit + 2
              /\ (~limit.present \/ limit.text = <<"2", "0">>) => calls[i].limit = 10
        /\ (req_pc = "responded" /\ status = 200) => Len(calls) = 2

\* A search with limit=3 has asked both providers for one hit each.
C22_Witness ==
    /\ route = "search"
    /\ req_pc = "responded"
    /\ status = 200
    /\ limit.present
    /\ limit.text = <<"3">>
    /\ Len(calls) = 2
    /\ calls[1].limit = 1
    /\ calls[2].limit = 1

\* The (source, title) pairs of a list of entries, and of the hits a provider
\* returned.
shown(entries) == [i \in 1..Len(entries) |-> <<entries[i].source, entries[i].title>>]

spotify_shown(hits) ==
    [i \in 1..Len(hits) |-> <<"Spotify", <<hits[i].artists, " - ", hits[i].name>>>>]

youtube_shown(hits) == [i \in 1..Len(hits) |-> <<"YouTube", hits[i].title>>]

\* C23: the result of the federated search is all hits Spotify returned, in
\* the order it returned them, followed by all hits YouTube returned, in its
\* order: one entry per hit, none dropped, duplicated or moved.
C23_ConcatInCallOrder ==
    (route = "search" /\ req_pc = "responded" /\ status = 200) =>
        /\ Len(returned) = 2
        /\ returned[1].provider = "Spotify"
        /\ returned[2].provider = "YouTube"
        /\ shown(results) =
              spotify_shown(returned[1].hits) \o youtube_shown(returned[2].hits)

\* A search has answered with two hits of Spotify and hits of YouTube.
C23_Witness ==
    /\ route = "search"
    /\ req_pc = "responded"
    /\ status = 200
    /\ Len(returned) = 2
    /\ Len(returned[1].hits) = 2
    /\ Len(returned[2].hits) >= 1
    /\ Len(results) = Len(returned[1].hits) + Len(returned[2].hits)

ProviderErrors == {"SpotifyException", "PyYouTubeException"}

\* C24: when the search of one provider raises an error, the federated
\* search still answers without error: both providers have been asked, the
\* failing one contributes nothing and the other one all its hits.
C24_ProviderErrorDegrades ==
    (route = "search" /\ req_pc = "responded" /\ exc \in ProviderErrors) =>
        /\ status = 200
        /\ ~unhandled
        /\ Len(calls) = 2
        /\ Len(returned) = 1
        /\ shown(results) =
              IF returned[1].provider = "Spotify"
              THEN spotify_shown(returned[1].hits)
              ELSE youtube_shown(returned[1].hits)

\* The request carries the configured credentials.
Authenticated == verify_password(credentials.username, credentials.password)

\* C25: every authenticated search request, on any of the three search
\* routes, whose q parameter is missing or empty is answered 400 whatever
\* its limit parameter is, and no provider is asked.
C25_MissingQueryIs400 ==
    (route \in SearchRoutes /\ Authenticated /\ q = <<>>) =>
        /\ calls = <<>>
        /\ req_pc = "responded" => status = 400

\* The query parameter a stream route reads its identifier from.
id_param(r) ==
    IF r = "stream_spotify" THEN "trackId"
    ELSE IF r = "stream_youtube" THEN "videoId"
    ELSE "id"

\* The identifiers of the hits a provider returned.
hit_ids(ret) ==
    [i \in 1..Len(ret.hits) |->
        IF ret.provider = "Spotify" THEN ret.hits[i].id ELSE ret.hits[i].videoId]

RECURSIVE all_hit_ids(_)
all_hit_ids(rets) ==
    IF rets = <<>> THEN <<>> ELSE hit_ids(Head(rets)) \o all_hit_ids(Tail(rets))

\* C29: the playback URL of every search result points back at this server
\* and round-trips: its host is the host of the search request, its path is
\* the stream path of the result's provider, and its query has exactly the
\* parameter that provider's stream route reads, whose decoded value the
\* route's parser turns into the identifier of the hit.
C29_PlaybackUrlRoundTrips ==
    (route \in SearchRoutes /\ req_pc = "responded" /\ status = 200) =>
        /\ Len(results) = Len(all_hit_ids(returned))
        /\ \A i \in 1..Len(results) :
              LET url == results[i].url
                  spotify == results[i].source = "Spotify"
                  value == unquote_plus(url.query[1][2])
              IN  /\ url.netloc = host
                  /\ url.path = IF spotify THEN spotify_stream_path
                                           ELSE youtube_stream_path
                  /\ Len(url.query) = 1
                  /\ url.query[1][1] = IF spotify THEN id_param("stream_spotify")
                                                  ELSE id_param("stream_youtube")
                  /\ all_hit_ids(returned)[i] =
                        IF spotify THEN parse_spotify_track_id(value)
                                   ELSE parse_youtube_video_id(value)

\* A federated search on the second host has answered with a Spotify and a
\* YouTube result.
C29_Witness ==
    /\ route = "search"
    /\ req_pc = "responded"
    /\ status = 200
    /\ host = "other.host"
    /\ \E i \in 1..Len(results) : results[i].source = "Spotify"
    /\ \E i \in 1..Len(results) : results[i].source = "YouTube"

\* The routes of the server.
ServerRoutes == Protected \cup {"version"}

\* C30: authentication is a precondition of every request: no route handler
\* of the server gives its response (anything but the 401 of the login)
\* unless the credentials of the request equal both configured secrets.
C30_EveryRouteAuthenticated ==
    (route \in ServerRoutes /\ req_pc = "responded" /\ status # 401) =>
        Authenticated

\* C26: for every duration d >= 0 and bitrate b > 0, estimate_size(d, b) is
\* d*b*125 plus the default offset of 20000, a second call with the same
\* arguments returns the same, and estimate_size(200, 320) is 8020000.
C26_EstimateSize ==
    fn_name = "estimate_size" =>
        \A i \in 1..Len(fn_res) :
            /\ fn_res[i] = 125 * fn_arg[1] * fn_arg[2] + 20000
            /\ fn_res[i] = fn_res[1]
            /\ fn_arg = <<200, 320>> => fn_res[i] = 8020000

\* estimate_size(200, 320) has been called twice.
C26_Witness ==
    /\ fn_name = "estimate_size"
    /\ fn_arg = <<200, 320>>
    /\ Len(fn_res) = 2
    /\ fn_res[2] = 8020000

\* C27: the identifier parsers are idempotent: whenever a parser has
\* returned an identifier, parsing that identifier returns it again.
C27_ParserIdempotent ==
    (fn_name \in Parsers /\ Len(fn_res) = 2) => fn_res[2] = fn_res[1]

\* A parser has found an identifier inside a longer input and has parsed
\* that identifier again.
C27_Witness ==
    /\ fn_name \in Parsers
    /\ Len(fn_res) = 2
    /\ fn_res[1] # <<>>
    /\ fn_res[1] # fn_arg

\* The length and the alphabet of the identifiers of a parser.
TokenLen(fn) == IF fn = "parse_spotify_track_id" THEN 22 ELSE 11
TokenChars(fn) ==
    IF fn = "parse_spotify_track_id" THEN Alnum ELSE Alnum \cup {"_", "-"}

\* The input s has a token of n characters of `chars` at position i.
TokenAt(s, i, n, chars) ==
    /\ i >= 1
    /\ i + n - 1 <= Len(s)
    /\ \A k \in 0..(n - 1) : s[i + k] \in chars

\* C28: for every input a parser returns either nothing or exactly one token
\* of the provider's length and alphabet (22 of [a-zA-Z0-9] for Spotify, 11
\* of [a-zA-Z0-9_-] for YouTube), the leftmost one of the input; it returns
\* nothing exactly when the input has no such token, never a shorter one.
C28_LeftmostWholeToken ==
    (fn_name \in Parsers /\ Len(fn_res) >= 1) =>
        LET n == TokenLen(fn_name)
            chars == TokenChars(fn_name)
            starts == {i \in 1..Len(fn_arg) : TokenAt(fn_arg, i, n, chars)}
        IN  IF starts = {}
            THEN fn_res[1] = <<>>
            ELSE /\ Len(fn_res[1]) = n
                 /\ \E i \in starts :
                       /\ \A j \in starts : i <= j
                       /\ fn_res[1] = SubSeq(fn_arg, i, i + n - 1)

\* A parser has returned the first of several different tokens of its input.
C28_Witness ==
    /\ fn_name \in Parsers
    /\ Len(fn_res) >= 1
    /\ fn_res[1] # <<>>
    /\ \E i \in 2..Len(fn_arg) :
          /\ TokenAt(fn_arg, i, TokenLen(fn_name), TokenChars(fn_name))
          /\ SubSeq(fn_arg, i, i + TokenLen(fn_name) - 1) # fn_res[1]

(***************************************************************************)
(* Claims C31..C36.                                                        *)
(***************************************************************************)

\* C31: after construction, self.session and self.content_feeder change
\* only in the failure branch of request_stream, that is in a step of
\* init_session that follows a failed first load; a search, the parsing of
\* an identifier, a request_stream call rejected for its id, the other
\* routes and the start and the close of a stream leave both as they are.
C31_SessionChangesOnlyInRecovery ==
    [][(session' # session \/ content_feeder' # content_feeder) =>
          /\ route = "request_stream"
          /\ first_fail # "none"
          /\ req_pc \in {"init_session", "init_feeder"}]_vars

\* A recovery has replaced the session and its content feeder.
C31_Witness ==
    /\ route = "request_stream"
    /\ first_fail # "none"
    /\ session = 1
    /\ content_feeder = 1

\* The thread is inside init_session: a session has been created for it and
\* not yet both attributes are stored.
InInitSession(t) == thread_pc[t] \in {"store_session", "read_session", "store_feeder"}

\* C32: under any interleaving of concurrent request_stream calls whose
\* loads fail, no two threads are inside init_session together, and
\* whenever none is, self.content_feeder is the feeder of the session
\* self.session names, never that of a session that has been replaced.
C32_RebuildsSerialized ==
    /\ Cardinality({t \in Threads : InInitSession(t)}) <= 1
    /\ (\A t \in Threads : ~InInitSession(t)) => content_feeder = session

\* No transcoder process and no feeder thread has been started.
NothingStarted == ffmpeg_process = "none" /\ write_t = "none"

\* C33: the transcoder is started lazily.  While the request is handled,
\* request_stream and generate_stream included, and until the consumer pulls
\* the first chunk, there is no process and no feeder thread; the first pull
\* is the only step that starts the process, with a feeder thread for
\* Spotify and none for YouTube; a request answered 400 has no generator
\* and has started nothing.
C33_LazyStart ==
    /\ [](/\ req_pc \notin {"responded", "iterating"} => NothingStarted
          /\ stream_pc \in {"none", "init"} => NothingStarted
          /\ (req_pc = "responded" /\ status = 400) =>
                (stream_pc = "none" /\ NothingStarted)
          /\ ffmpeg_process # "none" => (write_t # "none" <=> bridge = "spotify"))
    /\ [][(ffmpeg_process = "none" /\ ffmpeg_process' # "none") =>
             (stream_pc = "init" /\ stream_pc' = "read")]_vars

\* The consumer of a Spotify stream has pulled the first chunk: the process
\* and the feeder thread run.
C33_Witness ==
    /\ req_pc = "iterating"
    /\ bridge = "spotify"
    /\ stream_pc = "read"
    /\ ffmpeg_process = "running"
    /\ write_t # "none"

\* C34: the Spotify generator never raises to its consumer; an exception
\* raised by a read of the transcoder's output or at a yield ends the chunks
\* silently, and once the generator has finished after it the cleanup has
\* run: both pipes closed, terminate() called, wait() returned.
C34_SilentEndThenCleanup ==
    bridge = "spotify" =>
        /\ ~raised
        /\ (Finished /\ ffmpeg_process # "none" /\ (drain_err \/ cancelled)) =>
              (stdin_closed /\ stdout_closed /\ terminated /\ waited)

\* The feeder thread has ended.
FeederFinished == write_t \in {"done", "died"}

\* C35: once the Spotify generator has finished, however it ended, its
\* feeder thread has finished too: no feeder thread is left to read the
\* upstream stream or to write to the transcoder's input afterwards.
C35_FeederEndsWithGenerator ==
    (bridge = "spotify" /\ Finished /\ write_t # "none") => FeederFinished

\* C36: on the generic /stream route an id that matches the Spotify pattern
\* is served by the Spotify client, an id that matches only the YouTube
\* pattern by the YouTube client, in both cases with one load at most, and
\* an id that matches neither pattern is answered 400 with no load.
C36_GenericRouteDispatch ==
    (route = "stream" /\ req_pc = "responded" /\ id # <<>>) =>
        /\ n_load <= 1
        /\ Resolvable =>
              /\ status = 200
              /\ bridge = IF parse_spotify_track_id(id) # <<>> THEN "spotify"
                                                               ELSE "youtube"
        /\ ~WellFormed => (status = 400 /\ n_load = 0)

=============================================================================
